---- MODULE Spec2Model ----
(***************************************************************************)
(* A model of the flyboard agent router: the tool-calling orchestration    *)
(* loop run_task (src/src/agent/runner.py), the tools it dispatches to     *)
(* (src/src/tools/) and the HTTP handler around it                         *)
(* (src/src/app/routes/agent.py).                                          *)
(*                                                                         *)
(* Text is modelled as a sequence of one-character strings, so that        *)
(* str.strip(), str.lower() and the substring test `kw in msg` are         *)
(* computed as Python computes them.                                       *)
(***************************************************************************)
EXTENDS Integers, Sequences, FiniteSets, TLC

(***************************************************************************)
(* Bounds of the model.                                                    *)
(***************************************************************************)
\* The clock stops advancing at MaxTime.
MaxTime == 2
\* settings.AGENT_MAX_SECONDS is drawn from 0..MaxSeconds.
MaxSeconds == 1
\* settings.MAX_TOOLS_ITERATIONS is drawn from 0..MaxCap.
MaxCap == 2
\* A run issues at most MaxCalls engine calls: one for each tool turn within the
\* largest cap and the one after.
MaxCalls == MaxCap + 1
\* The tools are called from 1..NumThreads threads at once.
NumThreads == 2
\* A counter file holds 0..MaxCounter before the first call.
MaxCounter == 1
\* The document's modification time runs over 1..MaxMtime.
MaxMtime == 2
\* The larger knowledge base holds NumNotes entries that match a CRM query.
NumNotes == 12

(***************************************************************************)
(* Text.                                                                   *)
(***************************************************************************)
UpperChars ==
    <<"A","B","C","D","E","F","G","H","I","J","K","L","M",
      "N","O","P","Q","R","S","T","U","V","W","X","Y","Z">>
LowerChars ==
    <<"a","b","c","d","e","f","g","h","i","j","k","l","m",
      "n","o","p","q","r","s","t","u","v","w","x","y","z">>

\* str.lower() on one character
LowerChar(c) ==
    IF \E i \in 1..Len(UpperChars) : UpperChars[i] = c
    THEN LowerChars[CHOOSE i \in 1..Len(UpperChars) : UpperChars[i] = c]
    ELSE c

\* str.lower()
Lower(s) == [i \in 1..Len(s) |-> LowerChar(s[i])]

\* `sub in s`
Contains(s, sub) ==
    \E i \in 1..(Len(s) - Len(sub) + 1) : SubSeq(s, i, i + Len(sub) - 1) = sub

IsSpace(c) == c \in {" ", "\n", "\t"}

RECURSIVE LStrip(_)
LStrip(s) ==
    IF s = <<>> THEN <<>>
    ELSE IF IsSpace(Head(s)) THEN LStrip(Tail(s)) ELSE s

RECURSIVE RStrip(_)
RStrip(s) ==
    IF s = <<>> THEN <<>>
    ELSE IF IsSpace(s[Len(s)]) THEN RStrip(SubSeq(s, 1, Len(s) - 1)) ELSE s

\* str.strip()
Strip(s) == RStrip(LStrip(s))

Digits == <<"0","1","2","3","4","5","6","7","8","9">>

\* str(n) for n >= 0
RECURSIVE IntToStr(_)
IntToStr(n) ==
    IF n < 10 THEN <<Digits[n + 1]>>
    ELSE IntToStr(n \div 10) \o <<Digits[(n % 10) + 1]>>

\* "\n".join(texts)
RECURSIVE JoinLines(_)
JoinLines(texts) ==
    IF texts = <<>> THEN <<>>
    ELSE IF Len(texts) = 1 THEN texts[1]
    ELSE texts[1] \o <<"\n">> \o JoinLines(Tail(texts))

(***************************************************************************)
(* Message texts of the program.                                           *)
(***************************************************************************)
KW_openai ==
    <<"o","p","e","n","a","i">>
KW_rate ==
    <<"r","a","t","e">>
KW_timeout ==
    <<"t","i","m","e","o","u","t">>
KW_responses ==
    <<"r","e","s","p","o","n","s","e","s">>
MSG_task_empty ==
    <<"t","a","s","k"," ","m","u","s","t"," ","b","e"," ","a"," ","n","o","n","-","e","m","p","t","y"," ","s","t","r","i","n","g">>
MSG_no_api_key ==
    <<"O","P","E","N","A","I","_","A","P","I","_","K","E","Y"," ","i","s"," ","n","o","t"," ","c","o","n","f","i","g","u","r","e","d">>
MSG_deadline_prefix ==
    <<"a","g","e","n","t"," ","e","x","c","e","e","d","e","d"," ","m","a","x"," ","s","e","c","o","n","d","s"," ","(">>
MSG_cap_prefix ==
    <<"t","o","o","l"," ","i","t","e","r","a","t","i","o","n"," ","c","a","p"," ","e","x","c","e","e","d","e","d"," ","(","m","a","x"," ">>
MSG_upstream ==
    <<"O","p","e","n","A","I"," ","r","e","q","u","e","s","t"," ","f","a","i","l","e","d">>
MSG_unknown_tool ==
    <<"U","n","k","n","o","w","n"," ","t","o","o","l",":"," ">>
MSG_query_empty ==
    <<"q","u","e","r","y"," ","m","u","s","t"," ","b","e"," ","a"," ","n","o","n","-","e","m","p","t","y"," ","s","t","r","i","n","g">>
MSG_title_empty ==
    <<"t","i","t","l","e"," ","m","u","s","t"," ","b","e"," ","a"," ","n","o","n","-","e","m","p","t","y"," ","s","t","r","i","n","g">>
MSG_body_empty ==
    <<"b","o","d","y"," ","m","u","s","t"," ","b","e"," ","a"," ","n","o","n","-","e","m","p","t","y"," ","s","t","r","i","n","g">>
MSG_not_priority ==
    <<" ","i","s"," ","n","o","t"," ","a"," ","v","a","l","i","d"," ","T","i","c","k","e","t","P","r","i","o","r","i","t","y">>
MSG_datetime_empty ==
    <<"d","a","t","e","t","i","m","e","_","i","s","o"," ","m","u","s","t"," ","b","e"," ","a"," ","n","o","n","-","e","m","p","t","y"," ","I","S","O"," ","8","6","0","1"," ","s","t","r","i","n","g">>
MSG_datetime_invalid ==
    <<"d","a","t","e","t","i","m","e","_","i","s","o"," ","m","u","s","t"," ","b","e"," ","a"," ","v","a","l","i","d"," ","I","S","O"," ","8","6","0","1"," ","s","t","r","i","n","g">>
MSG_contact_empty ==
    <<"c","o","n","t","a","c","t"," ","m","u","s","t"," ","b","e"," ","a"," ","n","o","n","-","e","m","p","t","y"," ","s","t","r","i","n","g">>
MSG_channel_invalid ==
    <<"I","n","v","a","l","i","d"," ","c","h","a","n","n","e","l","."," ","S","u","p","p","o","r","t","e","d"," ","c","h","a","n","n","e","l","s",":"," ","[","'","e","m","a","i","l","'",","," ","'","p","h","o","n","e","'",","," ","'","w","h","a","t","s","a","p","p","'","]">>
MSG_fallback ==
    <<"I"," ","c","o","u","l","d","n","'","t"," ","g","e","n","e","r","a","t","e"," ","a"," ","f","i","n","a","l"," ","a","n","s","w","e","r","."," ","P","l","e","a","s","e"," ","t","r","y"," ","a","g","a","i","n",".">>
\* Python's own TypeError texts for a call f(**args) that does not bind
MSG_missing_args ==
    <<"(",")"," ","m","i","s","s","i","n","g"," ","r","e","q","u","i","r","e","d"," ","p","o","s","i","t","i","o","n","a","l"," ","a","r","g","u","m","e","n","t","s">>
MSG_unexpected_kw ==
    <<"(",")"," ","g","o","t"," ","a","n"," ","u","n","e","x","p","e","c","t","e","d"," ","k","e","y","w","o","r","d"," ","a","r","g","u","m","e","n","t">>
\* Texts of the errors the remote reasoning engine's client raises
MSG_connection ==
    <<"C","o","n","n","e","c","t","i","o","n"," ","e","r","r","o","r",".">>
MSG_rate_limit ==
    <<"R","a","t","e"," ","l","i","m","i","t"," ","r","e","a","c","h","e","d">>
MSG_timed_out ==
    <<"R","e","q","u","e","s","t"," ","t","i","m","e","d"," ","o","u","t",".">>

(***************************************************************************)
(* Values, argument dictionaries and exceptions.                           *)
(***************************************************************************)
\* A Python value: a str (its characters), an int or None.
StrV(chars) == [type |-> "str", s |-> chars, n |-> 0]
IntV(k) == [type |-> "int", s |-> <<>>, n |-> k]
NoneV == [type |-> "none", s |-> <<>>, n |-> 0]

\* A dict is the set of its <<key, value>> items.
EmptyDict == {}
Keys(d) == {item[1] : item \in d}
Get(d, k) == IF k \in Keys(d) THEN (CHOOSE item \in d : item[1] = k)[2] ELSE NoneV

\* (a variant that takes any string, blank or not)
AnyStr(v) == v.type = "str"

\* isinstance(v, str) and v.strip()
NonBlankStr(v) == v.type = "str" /\ Strip(v.s) # <<>>

\* repr(v) for the values of the model
Repr(v) ==
    IF v.type = "str" THEN <<"'">> \o v.s \o <<"'">>
    ELSE IF v.type = "int" THEN IntToStr(v.n)
    ELSE <<"N","o","n","e">>

NoTrace == "no_trace_id"
\* An attribute the exception does not have (max_iterations) is the empty set.
NoCap == {}

\* An exception object: its class, str(e) and the attributes it carries.
Exc(type, msg) ==
    [type |-> type, msg |-> msg, trace_id |-> NoTrace, max_iterations |-> NoCap]
NoExc == Exc("none", <<>>)

\* class UpstreamModelError(RuntimeError): carries trace_id
UpstreamModelError(trace, msg) ==
    [type |-> "UpstreamModelError", msg |-> msg, trace_id |-> trace,
     max_iterations |-> NoCap]

(***************************************************************************)
(* The tools (src/src/tools).  A tool call yields either a result or an    *)
(* exception, and the new state of the recorder it writes to.              *)
(***************************************************************************)
NoId == <<>>
ToolResult(tool, id, status) == [tool |-> tool, id |-> id, status |-> status]
NoResult == ToolResult("none", NoId, "none")

Returned(res, rec) == [ok |-> TRUE, result |-> res, exc |-> NoExc, recorder |-> rec]
Raised(e, rec) == [ok |-> FALSE, result |-> NoResult, exc |-> e, recorder |-> rec]

ToolNameChars(name) ==
    CASE name = "search_kb" -> <<"s","e","a","r","c","h","_","k","b">>
      [] name = "create_ticket" -> <<"c","r","e","a","t","e","_","t","i","c","k","e","t">>
      [] name = "schedule_followup" ->
            <<"s","c","h","e","d","u","l","e","_","f","o","l","l","o","w","u","p">>
      [] OTHER -> <<"l","o","o","k","u","p">>

\* Python's binding of f(**args): an unexpected or a missing keyword is a TypeError.
BindError(name, required, optional, args) ==
    IF Keys(args) \ (required \cup optional) # {}
    THEN Exc("TypeError", ToolNameChars(name) \o MSG_unexpected_kw)
    ELSE IF required \ Keys(args) # {}
    THEN Exc("TypeError", ToolNameChars(name) \o MSG_missing_args)
    ELSE NoExc

\* f"{counter:06d}"
RECURSIVE ZeroPad(_, _)
ZeroPad(chars, width) ==
    IF Len(chars) >= width THEN chars ELSE ZeroPad(<<"0">> \o chars, width)

\* The state of the two recorders: the counter files and the append-only logs.
InitRecorder ==
    [ticket_counter |-> 0, tickets |-> <<>>, followup_counter |-> 0, followups |-> <<>>]

\* search_kb(query, top_k=None, filters=None), as the loop sees it: the
\* validation of the query, then a result set.
search_kb(args, rec) ==
    LET bind == BindError("search_kb", {"query"}, {"top_k", "filters"}, args) IN
    IF bind # NoExc THEN Raised(bind, rec)
    ELSE IF ~NonBlankStr(Get(args, "query"))
    THEN Raised(Exc("ValueError", MSG_query_empty), rec)
    ELSE Returned(ToolResult("search_kb", NoId, "results"), rec)

TicketPriority == {<<"l","o","w">>, <<"m","e","d","i","u","m">>, <<"h","i","g","h">>}

\* _get_next_ticket_id: f"TICK-{counter:06d}"
TicketId(counter) == <<"T","I","C","K","-">> \o ZeroPad(IntToStr(counter), 6)

create_ticket(args, rec) ==
    LET bind == BindError("create_ticket", {"title", "body", "priority"}, {}, args)
        title == Get(args, "title")
        body == Get(args, "body")
        priority == Get(args, "priority")
        counter == rec.ticket_counter + 1
        ticket == [id |-> TicketId(counter), title |-> Strip(title.s),
                   body |-> Strip(body.s), priority |-> priority.s,
                   status |-> "created"]
    IN
    IF bind # NoExc THEN Raised(bind, rec)
    ELSE IF ~NonBlankStr(title) THEN Raised(Exc("ValueError", MSG_title_empty), rec)
    ELSE IF ~NonBlankStr(body) THEN Raised(Exc("ValueError", MSG_body_empty), rec)
    ELSE IF ~(priority.type = "str" /\ priority.s \in TicketPriority)
    THEN Raised(Exc("ValueError", Repr(priority) \o MSG_not_priority), rec)
    ELSE Returned(ToolResult("create_ticket", TicketId(counter), "created"),
                  [rec EXCEPT !.ticket_counter = counter,
                              !.tickets = Append(@, ticket)])

FollowupChannel ==
    {<<"e","m","a","i","l">>, <<"p","h","o","n","e">>,
     <<"w","h","a","t","s","a","p","p">>}

\* The calendar timestamps of the model that datetime.fromisoformat accepts.
IsoDatetimes == {<<"2","0","2","6","-","0","1","-","0","2">>}

\* _get_next_followup_id: f"FUP-{counter:06d}"
FollowupId(counter) == <<"F","U","P","-">> \o ZeroPad(IntToStr(counter), 6)

schedule_followup(args, rec) ==
    LET bind == BindError("schedule_followup",
                          {"datetime_iso", "contact", "channel"}, {}, args)
        dt == Get(args, "datetime_iso")
        contact == Get(args, "contact")
        channel == Get(args, "channel")
        counter == rec.followup_counter + 1
        followup == [id |-> FollowupId(counter), datetime_iso |-> Strip(dt.s),
                     contact |-> Strip(contact.s), channel |-> channel.s,
                     status |-> TRUE]
    IN
    IF bind # NoExc THEN Raised(bind, rec)
    ELSE IF ~NonBlankStr(dt) THEN Raised(Exc("ValueError", MSG_datetime_empty), rec)
    ELSE IF Strip(dt.s) \notin IsoDatetimes
    THEN Raised(Exc("ValueError", MSG_datetime_invalid), rec)
    ELSE IF ~NonBlankStr(contact)
    THEN Raised(Exc("ValueError", MSG_contact_empty), rec)
    ELSE IF ~(channel.type = "str" /\ channel.s \in FollowupChannel)
    THEN Raised(Exc("ValueError", MSG_channel_invalid), rec)
    ELSE Returned(ToolResult("schedule_followup", FollowupId(counter), "scheduled"),
                  [rec EXCEPT !.followup_counter = counter,
                              !.followups = Append(@, followup)])

\* _execute_tool(name, args)
_execute_tool(name, args, rec) ==
    IF name = "search_kb" THEN search_kb(args, rec)
    ELSE IF name = "create_ticket" THEN create_ticket(args, rec)
    ELSE IF name = "schedule_followup" THEN schedule_followup(args, rec)
    ELSE Raised(Exc("ValueError", MSG_unknown_tool \o ToolNameChars(name)), rec)

(***************************************************************************)
(* The reasoning engine's responses and the transcript.                    *)
(***************************************************************************)
\* The `arguments` attribute of a function_call item: a str holding text that is
\* not JSON, a JSON array or a JSON object, or (not a str) a dict or None.
ArgsText(kind, obj) == [kind |-> kind, obj |-> obj]
ArgsInvalidJson == ArgsText("invalid_json", EmptyDict)
ArgsJsonArray == ArgsText("json_array", EmptyDict)
ArgsJsonObject(obj) == ArgsText("json_object", obj)
ArgsDict(obj) == ArgsText("dict", obj)
NoArgs == ArgsText("none", EmptyDict)

\* An item of resp.output.  call_id 0 stands for the empty call_id.
Item(type, text, call_id, name, arguments) ==
    [type |-> type, text |-> text, call_id |-> call_id, name |-> name,
     arguments |-> arguments]
MessageItem(text) == Item("message", text, 0, "", NoArgs)
CallItem(call_id, name, arguments) == Item("function_call", <<>>, call_id, name, arguments)

\* json.dumps(result)
JsonDumps(result) == [json |-> result]
NoOutput == JsonDumps(NoResult)

\* A turn of the transcript `messages`.
Turn(type, role, text, call_id, name, arguments, output) ==
    [type |-> type, role |-> role, text |-> text, call_id |-> call_id,
     name |-> name, arguments |-> arguments, output |-> output]
RoleTurn(role, text) == Turn("message", role, text, 0, "", NoArgs, NoOutput)
FunctionCallTurn(call) ==
    Turn("function_call", "", <<>>, call.call_id, call.name, call.arguments, NoOutput)
\* (a variant that leaves the call_id out of the output turn)
OutputTurnWithoutCallId(call, result) ==
    Turn("function_call_output", "", <<>>, 0, "", NoArgs, JsonDumps(result))

FunctionCallOutputTurn(call, result) ==
    Turn("function_call_output", "", <<>>, call.call_id, "", NoArgs, JsonDumps(result))

\* _system_prompt(language): the fixed rules, with the language line when given
_system_prompt(language) ==
    <<"R","u","l","e","s",":">>
        \o (IF language.type = "str" /\ language.s # <<>>
            THEN <<"\n">> \o language.s ELSE <<>>)

\* user_text: task.strip(), with the customer id appended when given
UserText(task, customer_id) ==
    Strip(task.s)
        \o (IF customer_id.type = "str" /\ customer_id.s # <<>>
            THEN <<"\n", "\n", "(">> \o customer_id.s \o <<")">> ELSE <<>>)

\* _extract_function_calls(resp): the function_call items that have a call_id
\* and a name, in the order of resp.output
\* (a variant that forgets the test on the item's type)
ExtractAnyItem(output) == output

RECURSIVE _extract_function_calls(_)
_extract_function_calls(output) ==
    IF output = <<>> THEN <<>>
    ELSE LET item == Head(output) IN
         IF item.type = "function_call" /\ item.call_id # 0 /\ item.name # ""
         THEN <<item>> \o _extract_function_calls(Tail(output))
         ELSE _extract_function_calls(Tail(output))

\* _extract_text_from_response(resp)
RECURSIVE MessageTexts(_)
MessageTexts(output) ==
    IF output = <<>> THEN <<>>
    ELSE LET item == Head(output) IN
         IF item.type = "message" /\ Strip(item.text) # <<>>
         THEN <<Strip(item.text)>> \o MessageTexts(Tail(output))
         ELSE MessageTexts(Tail(output))

\* (a variant that joins every message text as it is)
RECURSIVE RawTexts(_)
RawTexts(output) ==
    IF output = <<>> THEN <<>>
    ELSE IF Head(output).type = "message"
         THEN <<Head(output).text>> \o RawTexts(Tail(output))
         ELSE RawTexts(Tail(output))

ExtractTextUnstripped(output) == JoinLines(RawTexts(output))

_extract_text_from_response(output) == Strip(JoinLines(MessageTexts(output)))

\* json.loads(args_json) if isinstance(args_json, str) else (args_json or {}),
\* with {} substituted when that raises or does not yield a dict
ParseFails(args_json) == args_json.kind \in {"invalid_json", "json_array"}

ParseArgs(args_json) ==
    IF ParseFails(args_json) THEN EmptyDict
    ELSE IF args_json.kind \in {"json_object", "dict"} THEN args_json.obj
    ELSE EmptyDict

\* settings.KB_TOP_K_DEFAULT
KB_TOP_K_DEFAULT == 5
\* the cap of `min(effective_top_k, 10)`
TopKCap == 10
\* round(norm, 6): scores are counted in millionths
ScoreUnit == 1000000
\* _build_snippet(..., snippet_length=220)
snippet_length == 220

(***************************************************************************)
(* search_kb: tokenization, scoring, soft preferences, ranking.            *)
(***************************************************************************)
\* _TROUBLESHOOTING_HINTS
_TROUBLESHOOTING_HINTS ==
    { <<"t","r","o","u","b","l","e","s","h","o","o","t">>,
      <<"t","r","o","u","b","l","e","s","h","o","o","t","i","n","g">>,
      <<"f","a","i","l","e","d">>, <<"f","a","i","l","u","r","e">>,
      <<"e","r","r","o","r">>, <<"i","s","s","u","e">>,
      <<"i","n","c","i","d","e","n","t">>, <<"b","r","o","k","e","n">>,
      <<"n","o","t">>, <<"w","o","r","k","i","n","g">>,
      <<"t","i","m","e","o","u","t">>, <<"r","a","t","e">>, <<"l","i","m","i","t">>,
      <<"c","o","m","p","l","a","i","n","t">>, <<"d","e","g","r","a","d","e","d">> }

\* _STOPWORDS
_STOPWORDS ==
    { <<"a">>, <<"a","n">>, <<"t","h","e">>, <<"t","o">>, <<"a","n","d">>, <<"o","r">>,
      <<"o","f">>, <<"i","n">>, <<"o","n">>, <<"f","o","r">>, <<"w","e">>, <<"r","e">>,
      <<"s","i","n","c","e">>, <<"t","h","i","s">>, <<"m","o","r","n","i","n","g">>,
      <<"w","h","a","t">>, <<"s","h","o","u","l","d">>, <<"c","a","n">>,
      <<"y","o","u">>, <<"m","e">> }

\* _SYNONYMS
_SYNONYMS ==
    { <<<<"h","u","b","s","p","o","t">>, <<"c","r","m">>>>,
      <<<<"s","a","l","e","s","f","o","r","c","e">>, <<"c","r","m">>>>,
      <<<<"o","p","s">>, <<"o","p","e","r","a","t","i","o","n","s">>>>,
      <<<<"t","i","c","k","e","t">>, <<"t","i","c","k","e","t">>>>,
      <<<<"t","i","c","k","e","t","s">>, <<"t","i","c","k","e","t">>>>,
      <<<<"w","r","i","t","e","b","a","c","k">>, <<"w","r","i","t","e","b","a","c","k">>>>,
      <<<<"w","r","i","t","e">>, <<"w","r","i","t","e">>>>,
      <<<<"b","a","c","k">>, <<"b","a","c","k">>>>,
      <<<<"f","a","i","l","i","n","g">>, <<"f","a","i","l","e","d">>>>,
      <<<<"f","a","i","l","u","r","e">>, <<"f","a","i","l","e","d">>>> }

\* _ESCALATION_HINTS
_ESCALATION_HINTS ==
    { <<"t","i","c","k","e","t">>, <<"h","i","g","h">>,
      <<"h","i","g","h","_","p","r","i","o","r","i","t","y">>,
      <<"p","r","i","o","r","i","t","y">>, <<"o","p","e","r","a","t","i","o","n","s">>,
      <<"i","n","c","i","d","e","n","t">>, <<"p","r","o","d","u","c","t","i","o","n">>,
      <<"e","s","c","a","l","a","t","e">>, <<"e","s","c","a","l","a","t","i","o","n">> }


\* the characters _TOKEN_RE = [a-z0-9]+ matches in lowercased text
AlnumChars ==
    {LowerChars[i] : i \in DOMAIN LowerChars} \cup {Digits[i] : i \in DOMAIN Digits}

\* _TOKEN_RE.findall(text), cur being the run of matching characters so far
RECURSIVE FindAll(_, _)
FindAll(chars, cur) ==
    IF chars = <<>> THEN (IF cur = <<>> THEN <<>> ELSE <<cur>>)
    ELSE IF Head(chars) \in AlnumChars
    THEN FindAll(Tail(chars), Append(cur, Head(chars)))
    ELSE (IF cur = <<>> THEN <<>> ELSE <<cur>>) \o FindAll(Tail(chars), <<>>)

\* _SYNONYMS.get(t, t)
Synonym(tok) ==
    IF \E item \in _SYNONYMS : item[1] = tok
    THEN (CHOOSE item \in _SYNONYMS : item[1] = tok)[2]
    ELSE tok

\* (a variant that drops the synonym table)
TokenizeWithoutSynonyms(text) ==
    SelectSeq(FindAll(Lower(text), <<>>), LAMBDA tok : tok \notin _STOPWORDS)

\* _tokenize(text)
_tokenize(text) ==
    LET toks == FindAll(Lower(text), <<>>)
        folded == [i \in DOMAIN toks |-> Synonym(toks[i])]
    IN SelectSeq(folded, LAMBDA tok : tok \notin _STOPWORDS)

_is_troubleshooting_query(query_tokens) ==
    \E i \in DOMAIN query_tokens : query_tokens[i] \in _TROUBLESHOOTING_HINTS

_is_escalation_query(query_tokens) ==
    \E i \in DOMAIN query_tokens : query_tokens[i] \in _ESCALATION_HINTS

\* KBEntry.from_dict; a last_updated that is missing or falsy is <<>>, which is
\* also what the sort key `last_updated or ""` makes of it
KBEntry(id, title, tags, audience, last_updated, content) ==
    [id |-> id, title |-> title, tags |-> tags, audience |-> audience,
     last_updated |-> last_updated, content |-> content]

\* list.count(x)
Count(seq, x) == Cardinality({i \in DOMAIN seq : seq[i] = x})

RECURSIVE SumSeq(_)
SumSeq(nums) == IF nums = <<>> THEN 0 ELSE Head(nums) + SumSeq(Tail(nums))

LowerAll(strs) == [i \in DOMAIN strs |-> Lower(strs[i])]

\* (a variant that weighs a tag hit like a content hit)
ScoreWithFlatTags(entry, query_tokens) ==
    LET title_tokens == _tokenize(Lower(entry.title))
        content_tokens == _tokenize(Lower(entry.content))
        tags == LowerAll(entry.tags)
    IN SumSeq([i \in DOMAIN query_tokens |->
                  5 * Count(title_tokens, query_tokens[i])
                  + Count(tags, query_tokens[i])
                  + Count(content_tokens, query_tokens[i])])

\* _score_entry(entry, query_tokens)
_score_entry(entry, query_tokens) ==
    LET title_tokens == _tokenize(Lower(entry.title))
        content_tokens == _tokenize(Lower(entry.content))
        tags == LowerAll(entry.tags)
    IN SumSeq([i \in DOMAIN query_tokens |->
                  5 * Count(title_tokens, query_tokens[i])
                  + 3 * Count(tags, query_tokens[i])
                  + 1 * Count(content_tokens, query_tokens[i])])

\* filters: None, or a dict whose values are strings and lists of strings
ListV(items) == [type |-> "list", s |-> items, n |-> 0]
NoFilters == [given |-> FALSE, d |-> EmptyDict]
Filters(d) == [given |-> TRUE, d |-> d]

\* `not filters`
FiltersFalsy(filters) == ~filters.given \/ filters.d = EmptyDict

MSG_none_strip ==
    <<"'","N","o","n","e","T","y","p","e","'"," ","o","b","j","e","c","t"," ",
      "h","a","s"," ","n","o"," ","a","t","t","r","i","b","u","t","e"," ",
      "'","s","t","r","i","p","'">>

\* filters.get("audience").strip() on a filters dict without an audience
BonusRaises(filters) ==
    ~FiltersFalsy(filters) /\ Get(filters.d, "audience").type # "str"

\* the part of _soft_preference_bonus that does not look at the filters
BaselineBonus(entry, query_tokens) ==
    LET entry_audience == Lower(entry.audience)
        entry_title == Lower(entry.title)
        entry_tags == LowerAll(entry.tags)
        is_troubleshooting == _is_troubleshooting_query(query_tokens)
        is_escalation == _is_escalation_query(query_tokens)
    IN (IF is_troubleshooting /\ entry_audience = <<"i","n","t","e","r","n","a","l">>
        THEN 4
        ELSE IF entry_audience = <<"c","u","s","t","o","m","e","r">> THEN 2 ELSE 0)
       + (IF is_escalation
          THEN (IF Contains(entry_title, <<"e","s","c","a","l","a","t","i","o","n">>)
                THEN 8 ELSE 0)
               + (IF Count(entry_tags, <<"o","p","e","r","a","t","i","o","n","s">>) > 0
                     \/ Count(entry_tags, <<"s","l","a">>) > 0
                  THEN 4 ELSE 0)
               + (IF entry_audience = <<"i","n","t","e","r","n","a","l">> THEN 1 ELSE 0)
          ELSE 0)

\* the part of _soft_preference_bonus that the filters add
FilterBonus(entry, query_tokens, filters) ==
    LET entry_audience == Lower(entry.audience)
        is_troubleshooting == _is_troubleshooting_query(query_tokens)
        requested_audience_val == Get(filters.d, "audience")
        requested_audience == Strip(Lower(requested_audience_val.s))
        requested_tags == Get(filters.d, "tags")
        need == { Lower(requested_tags.s[i]) :
                    i \in { j \in DOMAIN requested_tags.s :
                              Strip(requested_tags.s[j]) # <<>> } }
        have == { Lower(entry.tags[i]) : i \in DOMAIN entry.tags }
    IN (IF Strip(requested_audience_val.s) # <<>>
           /\ ( (is_troubleshooting
                   /\ requested_audience = <<"i","n","t","e","r","n","a","l">>)
                \/ (~is_troubleshooting
                      /\ requested_audience = <<"c","u","s","t","o","m","e","r">>) )
           /\ entry_audience = requested_audience
        THEN 2 ELSE 0)
       + (IF requested_tags.type = "list" /\ requested_tags.s # <<>>
          THEN Cardinality(need \cap have) ELSE 0)

\* _soft_preference_bonus(entry, query_tokens, filters), where it returns
_soft_preference_bonus(entry, query_tokens, filters) ==
    BaselineBonus(entry, query_tokens)
        + (IF FiltersFalsy(filters) THEN 0
           ELSE FilterBonus(entry, query_tokens, filters))

\* the order of str values under <, for the characters of the model
CodeOrder == <<" ", ",", "-", ".">> \o Digits \o UpperChars \o <<"_">> \o LowerChars
Ord(c) == CHOOSE i \in DOMAIN CodeOrder : CodeOrder[i] = c

RECURSIVE StrLess(_, _)
StrLess(a, b) ==
    IF b = <<>> THEN FALSE
    ELSE IF a = <<>> THEN TRUE
    ELSE IF Head(a) = Head(b) THEN StrLess(Tail(a), Tail(b))
    ELSE Ord(Head(a)) < Ord(Head(b))

\* the sort key (score, last_updated or "") of a scored entry, compared
KeyLess(x, y) ==
    \/ x.score < y.score
    \/ x.score = y.score /\ StrLess(x.entry.last_updated, y.entry.last_updated)

\* (a variant that sorts in ascending order)
RECURSIVE SortAscending(_)
SortAscending(scored) ==
    IF scored = <<>> THEN <<>>
    ELSE LET i == CHOOSE i \in DOMAIN scored :
                      /\ \A j \in DOMAIN scored : ~KeyLess(scored[j], scored[i])
                      /\ \A j \in 1 .. i - 1 : KeyLess(scored[i], scored[j])
         IN <<scored[i]>>
                \o SortAscending(SubSeq(scored, 1, i - 1)
                                     \o SubSeq(scored, i + 1, Len(scored)))

\* list.sort(key=..., reverse=True): descending, entries with equal keys in
\* their original order
RECURSIVE SortDescending(_)
SortDescending(scored) ==
    IF scored = <<>> THEN <<>>
    ELSE LET i == CHOOSE i \in DOMAIN scored :
                      /\ \A j \in DOMAIN scored : ~KeyLess(scored[i], scored[j])
                      /\ \A j \in 1 .. i - 1 : KeyLess(scored[j], scored[i])
         IN <<scored[i]>>
                \o SortDescending(SubSeq(scored, 1, i - 1)
                                      \o SubSeq(scored, i + 1, Len(scored)))

Max(a, b) == IF a >= b THEN a ELSE b
Min(a, b) == IF a <= b THEN a ELSE b

\* str.find(sub): the least 0-based position of sub in chars, as a set that is
\* empty when there is none
FindPos(chars, sub) ==
    LET at == { p \in 0 .. Len(chars) - Len(sub) :
                  SubSeq(chars, p + 1, p + Len(sub)) = sub }
    IN IF at = {} THEN {} ELSE { CHOOSE p \in at : \A q \in at : p <= q }

\* c[a:b]
Slice(chars, a, b) == SubSeq(chars, a + 1, Min(b, Len(chars)))

Ellipsis == <<".", ".", ".">>

\* _build_snippet(content, query_tokens, snippet_length=220)
_build_snippet(content, query_tokens) ==
    LET c == Strip(content)
        lower_c == Lower(c)
        found == UNION { FindPos(lower_c, query_tokens[i]) : i \in DOMAIN query_tokens }
        head == Slice(c, 0, snippet_length)
                    \o (IF Len(c) > snippet_length THEN Ellipsis ELSE <<>>)
    IN IF content = <<>> THEN <<>>
       ELSE IF found = {} THEN head
       ELSE LET first_pos == CHOOSE p \in found : \A q \in found : p <= q
                start == Max(0, first_pos - snippet_length \div 2)
                end == Min(Len(c), start + snippet_length)
            IN (IF start > 0 THEN Ellipsis ELSE <<>>)
                   \o Strip(Slice(c, start, end))
                   \o (IF end < Len(c) THEN Ellipsis ELSE <<>>)

\* (a variant that does not clamp top_k)
TopKUnclamped(top_k) == IF top_k.type = "none" THEN KB_TOP_K_DEFAULT ELSE top_k.n

\* effective_top_k
EffectiveTopK(top_k) ==
    Max(1, Min(IF top_k.type = "none" THEN KB_TOP_K_DEFAULT ELSE top_k.n, TopKCap))

\* float(round(score / max_score, 6)) in millionths; the quotient of two scores
\* of the model is never halfway between two millionths
Round6(score, max_score) == (2 * score * ScoreUnit + max_score) \div (2 * max_score)

\* the entries with a non-zero base score, each with its score
RECURSIVE Scored(_, _, _)
Scored(kb, query_tokens, filters) ==
    IF kb = <<>> THEN <<>>
    ELSE LET entry == Head(kb)
             base == _score_entry(entry, query_tokens)
         IN (IF base = 0 THEN <<>>
             ELSE << [entry |-> entry,
                      score |-> base + _soft_preference_bonus(entry, query_tokens,
                                                              filters)] >>)
            \o Scored(Tail(kb), query_tokens, filters)

SearchReturned(results) == [ok |-> TRUE, exc |-> NoExc, results |-> results]
SearchRaised(e) == [ok |-> FALSE, exc |-> e, results |-> <<>>]

\* search_kb(query, top_k, filters) from the sorted scored entries on
search_kb_with(scored_entries, query, top_k, filters) ==
    IF ~NonBlankStr(query) THEN SearchRaised(Exc("ValueError", MSG_query_empty))
    ELSE LET query_tokens == _tokenize(query.s)
             effective_top_k == EffectiveTopK(top_k)
             top_entries == SubSeq(scored_entries, 1,
                                   Min(effective_top_k, Len(scored_entries)))
         IN IF BonusRaises(filters) /\ scored_entries # <<>>
            THEN SearchRaised(Exc("AttributeError", MSG_none_strip))
            ELSE SearchReturned(
                     [i \in DOMAIN top_entries |->
                        [id |-> top_entries[i].entry.id,
                         title |-> top_entries[i].entry.title,
                         score |-> Round6(top_entries[i].score, top_entries[1].score),
                         snippet |-> _build_snippet(top_entries[i].entry.content,
                                                    query_tokens),
                         tags |-> top_entries[i].entry.tags]])

\* the entries with a non-zero base score, scored and sorted, for a query text
Ranked(kb, text, filters) == SortDescending(Scored(kb, _tokenize(text), filters))

\* search_kb(query, top_k, filters) over the entries _load_kb gave
search_kb_on(kb, query, top_k, filters) ==
    search_kb_with(Ranked(kb, query.s, filters), query, top_k, filters)

(***************************************************************************)
(* The inputs of the model.                                                *)
(***************************************************************************)
TraceIds == {"trace_a", "trace_b"}

TXT_hi == <<"h","i">>
TXT_crm == <<"c","r","m">>
TXT_vpn == <<"v","p","n">>
TXT_high == <<"h","i","g","h">>
TXT_urgent == <<"u","r","g","e","n","t">>
TXT_moderate == <<"m","o","d","e","r","a","t","e">>
TXT_email == <<"e","m","a","i","l">>
TXT_date == <<"2","0","2","6","-","0","1","-","0","2">>
TXT_blank == <<" ">>

\* (task, customer_id, language) as the caller may pass them
TaskInputs ==
    { [task |-> StrV(<<" ">> \o TXT_hi), customer_id |-> StrV(<<"c","7">>),
       language |-> StrV(<<"h","e">>)],
      [task |-> StrV(TXT_blank), customer_id |-> NoneV, language |-> NoneV],
      [task |-> StrV(<<>>), customer_id |-> NoneV, language |-> NoneV],
      [task |-> NoneV, customer_id |-> NoneV, language |-> NoneV] }

SearchArgs == {<<"query", StrV(TXT_crm)>>, <<"top_k", IntV(2)>>}
TicketArgs ==
    {<<"title", StrV(TXT_vpn)>>, <<"body", StrV(TXT_vpn)>>, <<"priority", StrV(TXT_high)>>}
FollowupArgs ==
    {<<"datetime_iso", StrV(TXT_date)>>, <<"contact", StrV(TXT_hi)>>,
     <<"channel", StrV(TXT_email)>>}
\* arguments that follow the advertised catalog of _tool_definitions
CatalogTicketArgs ==
    {<<"customer_id", StrV(TXT_hi)>>, <<"title", StrV(TXT_vpn)>>,
     <<"description", StrV(TXT_vpn)>>}

\* The outputs the engine may answer the k-th call with.  Call ids are unique:
\* the i-th request of the k-th response has call_id 10 * k + i.
Responses(k) ==
    { <<MessageItem(TXT_hi)>>,
      <<MessageItem(TXT_blank)>>,
      <<>>,
      <<CallItem(0, "search_kb", ArgsJsonObject(SearchArgs))>>,
      <<CallItem(10 * k + 1, "search_kb", ArgsJsonObject(SearchArgs))>>,
      <<MessageItem(TXT_hi),
        CallItem(10 * k + 1, "schedule_followup", ArgsJsonObject(FollowupArgs))>>,
      <<CallItem(10 * k + 1, "create_ticket", ArgsDict(TicketArgs)),
        CallItem(10 * k + 2, "search_kb", ArgsJsonObject(SearchArgs))>>,
      <<CallItem(10 * k + 1, "search_kb", ArgsInvalidJson)>>,
      <<CallItem(10 * k + 1, "create_ticket", ArgsJsonArray)>>,
      <<CallItem(10 * k + 1, "search_kb",
                 ArgsJsonObject({<<"query", StrV(TXT_blank)>>}))>>,
      <<CallItem(10 * k + 1, "create_ticket",
                 ArgsJsonObject({<<"title", StrV(TXT_vpn)>>, <<"body", StrV(TXT_vpn)>>,
                                 <<"priority", StrV(TXT_urgent)>>}))>>,
      <<CallItem(10 * k + 1, "create_ticket",
                 ArgsJsonObject({<<"title", StrV(TXT_vpn)>>, <<"body", StrV(TXT_vpn)>>,
                                 <<"priority", StrV(TXT_moderate)>>}))>>,
      <<CallItem(10 * k + 1, "create_ticket", ArgsJsonObject(CatalogTicketArgs))>>,
      <<CallItem(10 * k + 1, "lookup", ArgsJsonObject(SearchArgs))>> }

\* The errors client.responses.create may raise (class and text)
EngineErrors ==
    { Exc("APIConnectionError", MSG_connection),
      Exc("RateLimitError", MSG_rate_limit),
      Exc("APITimeoutError", MSG_timed_out) }

(***************************************************************************)
(* The knowledge-base documents and the calls of the model.                *)
(***************************************************************************)
TXT_customer == <<"c","u","s","t","o","m","e","r">>
TXT_internal == <<"i","n","t","e","r","n","a","l">>

\* The three-entry knowledge base of the tests' kb_json fixture.
KbFixture ==
    << KBEntry(<<"K","B","-","0","0","1">>,
                <<"C","R","M"," ","i","n","t","e","g","r","a","t","i","o","n"," ","b","a","s","i","c","s">>,
                <<<<"c","r","m">>, <<"i","n","t","e","g","r","a","t","i","o","n">>>>, <<"c","u","s","t","o","m","e","r">>,
                <<"2","0","2","4","-","0","6","-","1","0">>,
                <<"U", "s", "e", " ", "t", "h", "e", " ", "C", "R", "M", " ", "i",
                  "n", "t", "e", "g", "r", "a", "t", "i", "o", "n", " ", "t", "o",
                  " ", "s", "y", "n", "c", " ", "a", "c", "c", "o", "u", "n", "t",
                  "s", ".">>),
       KBEntry(<<"K","B","-","0","0","2">>,
                <<"E","m","a","i","l"," ","t","r","o","u","b","l","e","s","h","o","o","t","i","n","g">>,
                <<<<"e","m","a","i","l">>>>, <<"i","n","t","e","r","n","a","l">>,
                <<"2","0","2","4","-","0","6","-","0","5">>,
                <<"I", "f", " ", "e", "m", "a", "i", "l", " ", "f", "a", "i", "l",
                  "s", ",", " ", "c", "h", "e", "c", "k", " ", "t", "h", "e", " ",
                  "S", "M", "T", "P", " ", "s", "e", "t", "t", "i", "n", "g", "s",
                  ".">>),
       KBEntry(<<"K","B","-","0","0","3">>,
                <<"C","R","M"," ","e","s","c","a","l","a","t","i","o","n"," ","g","u","i","d","e">>,
                <<<<"c","r","m">>, <<"o","p","e","r","a","t","i","o","n","s">>, <<"e","s","c","a","l","a","t","i","o","n">>>>, <<"i","n","t","e","r","n","a","l">>,
                <<"2","0","2","4","-","0","6","-","1","2">>,
                <<"E", "s", "c", "a", "l", "a", "t", "e", " ", "C", "R", "M", " ",
                  "i", "s", "s", "u", "e", "s", " ", "t", "o", " ", "t", "h", "e",
                  " ", "o", "p", "e", "r", "a", "t", "i", "o", "n", "s", " ", "t",
                  "e", "a", "m", ".">>) >>

\* The same three entries, none of them written for customers.
KbInternal == [i \in DOMAIN KbFixture |-> [KbFixture[i] EXCEPT !.audience = TXT_internal]]

\* A larger knowledge base: NumNotes notes that all mention the CRM, with
\* different weights, audiences and dates, and one entry that does not.
Repeat(chars, k) == [i \in 1 .. k * Len(chars) |-> chars[((i - 1) % Len(chars)) + 1]]

Note(i) ==
    KBEntry(<<"N","-">> \o IntToStr(i),
            IF i % 2 = 0 THEN <<"C","R","M"," ","n","o","t","e">> ELSE <<"N","o","t","e">>,
            IF i % 3 = 0 THEN <<TXT_crm>> ELSE <<>>,
            IF i % 4 = 0 THEN TXT_customer ELSE IF i % 4 = 1 THEN TXT_internal ELSE <<>>,
            IF i % 5 = 0 THEN <<>>
            ELSE <<"2","0","2","4","-","0","7","-","0">> \o IntToStr((i % 4) + 1),
            Repeat(<<"c","r","m"," ">>, (i % 3) + 1)
                \o <<"H","u","b","s","p","o","t"," ","s","y","n","c",".">>)

KbLarge == [i \in 1 .. NumNotes |-> Note(i)] \o <<KbFixture[2]>>

\* the versions the document can have
KBDocs == <<KbFixture, KbInternal, KbLarge>>
Docs == DOMAIN KBDocs
Q_crm_integration == <<"c","r","m"," ","i","n","t","e","g","r","a","t","i","o","n">>
Q_crm == <<"C","R","M">>
Q_salesforce == <<"S","a","l","e","s","f","o","r","c","e">>
Q_hubspot_crm ==
    <<"H","u","b","S","p","o","t"," ","C","R","M"," ",
      "i","n","t","e","g","r","a","t","i","o","n">>
Q_crm_crm ==
    <<"c","r","m"," ","C","R","M"," ","i","n","t","e","g","r","a","t","i","o","n">>
Q_email_failed == <<"e","m","a","i","l"," ","f","a","i","l","e","d">>
Q_escalation == <<"e","s","c","a","l","a","t","i","o","n"," ","t","i","c","k","e","t">>
Q_the == <<"t","h","e">>
Q_zzz == <<"z","z","z">>
Q_tab == <<"\t", " ">>

\* the queries of the model: texts, and what is no usable text
Queries ==
    { StrV(Q_crm_integration), StrV(Q_crm), StrV(Q_salesforce), StrV(Q_email_failed),
      StrV(Q_hubspot_crm), StrV(Q_crm_crm), StrV(Q_escalation), StrV(Q_the), StrV(Q_zzz),
      StrV(<<>>), StrV(TXT_blank), StrV(Q_tab), NoneV, IntV(7) }

\* top_k absent, below 1, small, above the default, at the cap and above it
TopKs ==
    { NoneV, IntV(0 - 1), IntV(0), IntV(1), IntV(2), IntV(KB_TOP_K_DEFAULT + 1),
      IntV(TopKCap), IntV(TopKCap + 1) }

FilterValues ==
    { NoFilters, Filters(EmptyDict),
      Filters({<<"audience", StrV(TXT_customer)>>}),
      Filters({<<"audience", StrV(<<" ","I","n","t","e","r","n","a","l">>)>>,
               <<"tags", ListV(<<TXT_crm, <<"O","p","e","r","a","t","i","o","n","s">>>>)>>}),
      Filters({<<"tags", ListV(<<TXT_crm>>)>>}) }

(***************************************************************************)
(* State.                                                                  *)
(***************************************************************************)
VARIABLES
    settings,            \* the process settings (app.core.config.Settings)
    now,                 \* the wall clock, time.time()
    recorder,            \* ticket and follow-up counters and logs
    pc,                  \* where run_task is
    input,               \* the arguments run_task was called with
    trace_id, t0, deadline, openai_calls, tool_iterations,
    tool_call_records, messages,
    pending,             \* the calls of the current response not yet executed
    returned,            \* the dict run_task returned
    raised,              \* the exception run_task raised
    http,                \* what run_agent answered
    \* history variables
    engine_calls,        \* the time at which each engine call was issued
    last_response,       \* the engine's last response and when it arrived
    requested,           \* every extracted tool invocation request, in order
    executed,            \* every call handed to _execute_tool, in order
    origin,              \* where the raised exception came from
    sent,                \* the transcript passed to each engine call
    \* the tools on their own: concurrent recorder calls and the knowledge base
    locks,               \* the owner of each recorder's _LOCK
    counter0,            \* what each counter file held before the first call
    callers,             \* the threads calling create_ticket / schedule_followup
    kb_file,             \* the knowledge-base document and its modification time
    kb_cache,            \* _KB_CACHE and _KB_MTIME
    readers,             \* the threads inside _load_kb
    search               \* the last search_kb call and what it gave

vars ==
    <<settings, now, recorder, pc, input, trace_id, t0, deadline, openai_calls,
      tool_iterations, tool_call_records, messages, pending, returned, raised,
      http, engine_calls, last_response, requested, executed, origin, sent,
      locks, counter0, callers, kb_file, kb_cache, readers, search>>

\* the variables run_task does not touch
tools_vars == <<locks, counter0, callers, kb_file, kb_cache, readers, search>>

\* the variables of run_task and run_agent
run_vars ==
    <<settings, now, pc, input, trace_id, t0, deadline, openai_calls,
      tool_iterations, tool_call_records, messages, pending, returned, raised,
      http, engine_calls, last_response, requested, executed, origin, sent>>

RunResult(trace, answer, records, latency, model, calls) ==
    [trace_id |-> trace, final_answer |-> answer, tool_calls |-> records,
     metrics |-> [latency_ms |-> latency, model |-> model, openai_calls |-> calls]]
NoRunResult == RunResult(NoTrace, <<>>, <<>>, 0, "", 0)

NoInput == [task |-> NoneV, customer_id |-> NoneV, language |-> NoneV]
NoResponse == [output |-> <<>>, at |-> 0, call |-> 0]

HttpResponse(status, error, trace, cap, body) ==
    [status_code |-> status, error |-> error, trace_id |-> trace,
     max_iterations |-> cap, body |-> body]
NoHttp == HttpResponse(0, "", NoTrace, NoCap, NoRunResult)

\* Settings(): the values the environment may configure
SettingsValues ==
    [OPENAI_API_KEY : {"", "test-key"},
     OPENAI_MODEL : {"gpt-4.1-mini"},
     AGENT_MAX_SECONDS : 0..MaxSeconds,
     MAX_TOOLS_ITERATIONS : 0..MaxCap]

\* The state of the tools while no thread is inside them.
RecorderKinds == {"ticket", "followup"}
Threads == 1 .. NumThreads
NoThread == 0
NoLocks == [kind \in RecorderKinds |-> NoThread]
IdleCaller ==
    [pc |-> "idle", kind |-> "ticket", args |-> EmptyDict, counter |-> 0, id |-> NoId]
NoCallers == [t \in Threads |-> IdleCaller]
NoDoc == 0
NoMtime == {}
InitKbFile == [doc |-> 1, mtime |-> 1]
NoKbCache == [_KB_CACHE |-> NoDoc, _KB_MTIME |-> NoMtime]
IdleReader ==
    [pc |-> "idle", mtime |-> NoMtime, data |-> NoDoc, entries |-> NoDoc, hit |-> FALSE]
NoReaders == [t \in Threads |-> IdleReader]
NoSearch == [called |-> FALSE]

Init ==
    /\ settings \in SettingsValues
    /\ now = 0
    /\ recorder = InitRecorder
    /\ pc = "idle"
    /\ input = NoInput
    /\ trace_id = NoTrace
    /\ t0 = 0
    /\ deadline = 0
    /\ openai_calls = 0
    /\ tool_iterations = 0
    /\ tool_call_records = <<>>
    /\ messages = <<>>
    /\ pending = <<>>
    /\ returned = NoRunResult
    /\ raised = NoExc
    /\ http = NoHttp
    /\ engine_calls = <<>>
    /\ last_response = NoResponse
    /\ requested = <<>>
    /\ executed = <<>>
    /\ origin = "none"
    /\ sent = <<>>
    /\ locks = NoLocks
    /\ counter0 = 0
    /\ callers = NoCallers
    /\ kb_file = InitKbFile
    /\ kb_cache = NoKbCache
    /\ readers = NoReaders
    /\ search = NoSearch

(***************************************************************************)
(* run_agent, the handler of POST /v1/agent/run: it calls run_task and     *)
(* answers with what run_task returned, or with a payload chosen by the    *)
(* class of what it raised.                                                *)
(***************************************************************************)
RunAgentAnswer(result, e) ==
    IF e = NoExc THEN HttpResponse(200, "", result.trace_id, NoCap, result)
    ELSE IF e.type = "UpstreamModelError"
    THEN HttpResponse(502, "upstream_error", e.trace_id, NoCap, NoRunResult)
    ELSE IF e.type = "ToolIterationLimitError"
    THEN HttpResponse(500, "tool_iteration_limit", e.trace_id, e.max_iterations,
                      NoRunResult)
    ELSE HttpResponse(500, "Internal server error", NoTrace, NoCap, NoRunResult)

(***************************************************************************)
(* run_task.                                                               *)
(***************************************************************************)
\* (a variant that forgets task.strip())
TaskNotStripped(task) == ~(task.type = "str" /\ task.s # <<>>)

\* not isinstance(task, str) or not task.strip()
TaskInvalid(task) == ~NonBlankStr(task)

\* (a variant that never finds the deadline passed)
DeadlineNeverChecked(t, limit) == FALSE

\* time.time() > deadline
DeadlineExceeded(t, limit) == t > limit

\* (a variant that allows one more tool-requesting turn)
CapExceededLate(iterations, cap) == iterations > cap + 1

\* (a variant that never finds the cap exceeded)
CapNeverExceeded(iterations, cap) == FALSE

\* tool_iterations > max_tool_iterations
CapExceeded(iterations, cap) == iterations > cap

\* the `except` clauses around the loop: what the caller finally sees
IsUpstreamText(msg) ==
    \/ Contains(msg, KW_openai)
    \/ Contains(msg, KW_rate)
    \/ Contains(msg, KW_timeout)
    \/ Contains(msg, KW_responses)

\* (a variant that reports every failure as an upstream failure)
HandleAnyAsUpstream(e, trace) ==
    IF e.type = "UpstreamModelError" THEN e
    ELSE UpstreamModelError(trace, MSG_upstream)

HandleException(e, trace) ==
    IF e.type = "UpstreamModelError" THEN e
    ELSE IF IsUpstreamText(Lower(e.msg)) THEN UpstreamModelError(trace, MSG_upstream)
    ELSE e

\* The frame of a step of run_task that ends it by raising e inside the `try`.
RaiseInLoop(e, from) ==
    /\ pc' = "raised"
    /\ raised' = HandleException(e, trace_id)
    /\ origin' = from
    /\ http' = RunAgentAnswer(NoRunResult, HandleException(e, trace_id))
    /\ UNCHANGED returned

\* The frame of a step of run_task that raises e before the `try`.
RaiseBeforeLoop(e, from) ==
    /\ pc' = "raised"
    /\ raised' = e
    /\ origin' = from
    /\ http' = RunAgentAnswer(NoRunResult, e)

\* run_task(task, customer_id, language) up to the `try`
RunTaskStart ==
    /\ pc = "idle"
    /\ \E inp \in TaskInputs, trace \in TraceIds :
        /\ input' = inp
        /\ IF TaskInvalid(inp.task)
           THEN /\ RaiseBeforeLoop(Exc("ValueError", MSG_task_empty), "validation")
                /\ UNCHANGED <<trace_id, t0, deadline, messages>>
           ELSE /\ trace_id' = trace
                /\ t0' = now
                /\ deadline' = now + settings.AGENT_MAX_SECONDS
                /\ messages' = << RoleTurn("system", _system_prompt(inp.language)),
                                  RoleTurn("user", UserText(inp.task, inp.customer_id)) >>
                /\ IF settings.OPENAI_API_KEY = ""
                   THEN RaiseBeforeLoop(Exc("ValueError", MSG_no_api_key),
                                        "configuration")
                   ELSE /\ pc' = "loop"
                        /\ UNCHANGED <<raised, origin, http>>
    /\ UNCHANGED <<settings, now, recorder, openai_calls, tool_iterations,
                   tool_call_records, pending, returned, engine_calls, sent,
                   last_response, requested, executed, tools_vars>>

\* The top of `while True`: count the call, check the deadline, issue the call.
Dispatch ==
    /\ pc = "loop"
    /\ openai_calls < MaxCalls
    /\ openai_calls' = openai_calls + 1
    /\ IF DeadlineExceeded(now, deadline)
       THEN /\ RaiseInLoop(Exc("TimeoutError",
                               MSG_deadline_prefix
                                   \o IntToStr(settings.AGENT_MAX_SECONDS) \o <<")">>),
                           "deadline")
            /\ UNCHANGED <<engine_calls, sent>>
       ELSE /\ pc' = "engine"
            /\ engine_calls' = Append(engine_calls, now)
            /\ sent' = Append(sent, messages)
            /\ UNCHANGED <<returned, raised, http, origin>>
    /\ UNCHANGED <<settings, now, recorder, input, trace_id, t0, deadline,
                   tool_iterations, tool_call_records, messages, pending,
                   last_response, requested, executed, tools_vars>>

\* client.responses.create raises.
EngineFails ==
    /\ pc = "engine"
    /\ \E e \in EngineErrors : RaiseInLoop(e, "engine")
    /\ UNCHANGED <<settings, now, recorder, input, trace_id, t0, deadline,
                   openai_calls, tool_iterations, tool_call_records, messages,
                   pending, engine_calls, sent, last_response, requested, executed,
                   tools_vars>>

\* client.responses.create returns resp; the loop decides what the turn is.
EngineResponds ==
    /\ pc = "engine"
    /\ \E output \in Responses(openai_calls) :
        LET calls == _extract_function_calls(output)
            text == _extract_text_from_response(output)
            final_answer == IF text = <<>> THEN MSG_fallback ELSE text
        IN
        /\ last_response' = [output |-> output, at |-> now, call |-> openai_calls]
        /\ IF calls # <<>>
           THEN /\ tool_iterations' = tool_iterations + 1
                /\ requested' = requested \o calls
                /\ IF CapExceeded(tool_iterations + 1, settings.MAX_TOOLS_ITERATIONS)
                   THEN /\ RaiseInLoop(Exc("ValueError",
                                           MSG_cap_prefix
                                               \o IntToStr(settings.MAX_TOOLS_ITERATIONS)
                                               \o <<")">>),
                                       "cap")
                        /\ UNCHANGED pending
                   ELSE /\ pc' = "tools"
                        /\ pending' = calls
                        /\ UNCHANGED <<returned, raised, http, origin>>
           ELSE LET result == RunResult(trace_id, final_answer, tool_call_records,
                                        (now - t0) * 1000, settings.OPENAI_MODEL,
                                        openai_calls)
                IN
                /\ pc' = "returned"
                /\ returned' = result
                /\ http' = RunAgentAnswer(result, NoExc)
                /\ UNCHANGED <<tool_iterations, requested, pending, raised, origin>>
    /\ UNCHANGED <<settings, now, recorder, input, trace_id, t0, deadline,
                   openai_calls, tool_call_records, messages, engine_calls, sent,
                   executed, tools_vars>>

\* (a variant that records the newest call first)
PrependRecord(records, rec) == <<rec>> \o records

\* tool_call_records.append(...)
AppendRecord(records, rec) == Append(records, rec)

\* One pass of `for call_id, name, args_json in calls`.
ExecuteCall ==
    /\ pc = "tools"
    /\ pending # <<>>
    /\ LET call == Head(pending)
           args == ParseArgs(call.arguments)
           out == _execute_tool(call.name, args, recorder)
           with_request == Append(messages, FunctionCallTurn(call))
       IN
       /\ executed' = Append(executed,
                             [call_id |-> call.call_id, name |-> call.name,
                              arguments |-> args,
                              substituted |-> ParseFails(call.arguments),
                              ok |-> out.ok, exc |-> out.exc,
                              result |-> out.result, turn |-> openai_calls])
       /\ IF out.ok
          THEN /\ recorder' = out.recorder
               /\ tool_call_records' =
                      AppendRecord(tool_call_records,
                                   [name |-> call.name, arguments |-> args,
                                    result |-> out.result])
               /\ messages' = Append(with_request,
                                     FunctionCallOutputTurn(call, out.result))
               /\ pending' = Tail(pending)
               /\ pc' = IF Tail(pending) = <<>> THEN "loop" ELSE "tools"
               /\ UNCHANGED <<returned, raised, http, origin>>
          ELSE /\ RaiseInLoop(out.exc, "tool")
               /\ messages' = with_request
               /\ UNCHANGED <<recorder, tool_call_records, pending>>
    /\ UNCHANGED <<settings, now, input, trace_id, t0, deadline, openai_calls,
                   tool_iterations, engine_calls, sent, last_response, requested,
                   tools_vars>>

\* Time passes while the task runs.  run_task reads the clock at the top of the
\* loop and when it returns, so the time a tool execution takes is the time that
\* has passed when the loop is next at its top.
Tick ==
    /\ pc \in {"loop", "engine"}
    /\ now < MaxTime
    /\ now' = now + 1
    /\ UNCHANGED <<settings, recorder, pc, input, trace_id, t0, deadline,
                   openai_calls, tool_iterations, tool_call_records, messages,
                   pending, returned, raised, http, engine_calls, sent, last_response,
                   tools_vars,
                   requested, executed, origin>>

Next ==
    \/ RunTaskStart
    \/ Dispatch
    \/ EngineFails
    \/ EngineResponds
    \/ ExecuteCall
    \/ Tick

Spec == Init /\ [][Next]_vars

\* What the steps of the loop do to the position in run_task, for stating that
\* they are taken.  LoopTurns is Dispatch, EngineReturns is EngineFails or
\* EngineResponds, ToolReturns is ExecuteCall: each is enabled exactly when the
\* action is, and within Next each is a step of that action.
LoopTurns ==
    /\ pc = "loop"
    /\ openai_calls < MaxCalls
    /\ pc' \in {"engine", "raised"}

EngineReturns ==
    /\ pc = "engine"
    /\ pc' \in {"tools", "returned", "raised"}

ToolReturns ==
    /\ pc = "tools"
    /\ pending # <<>>
    /\ \/ pc' = "raised" /\ pending' = pending
       \/ pc' \in {"loop", "tools"} /\ pending' = Tail(pending)

\* run_task under the proviso that its own steps are taken and that every
\* engine call and every tool execution comes back, by returning or by raising.
\* Nothing is assumed about time passing.
SpecFair ==
    /\ Spec
    /\ WF_pc(LoopTurns)
    /\ WF_pc(EngineReturns)
    /\ WF_<<pc, pending>>(ToolReturns)

(***************************************************************************)
(* create_ticket and schedule_followup called from several threads at      *)
(* once.  Every thread makes one call; a step is one of the file or lock   *)
(* operations of the call.                                                 *)
(***************************************************************************)
\* run_task is not running
IdleRun ==
    /\ settings = [OPENAI_API_KEY |-> "", OPENAI_MODEL |-> "gpt-4.1-mini",
                   AGENT_MAX_SECONDS |-> 0, MAX_TOOLS_ITERATIONS |-> 0]
    /\ now = 0 /\ pc = "idle" /\ input = NoInput /\ trace_id = NoTrace
    /\ t0 = 0 /\ deadline = 0 /\ openai_calls = 0 /\ tool_iterations = 0
    /\ tool_call_records = <<>> /\ messages = <<>> /\ pending = <<>>
    /\ returned = NoRunResult /\ raised = NoExc /\ http = NoHttp
    /\ engine_calls = <<>> /\ last_response = NoResponse /\ requested = <<>>
    /\ executed = <<>> /\ origin = "none" /\ sent = <<>>

\* a priority outside TicketPriority
BadTicketArgs ==
    {<<"title", StrV(TXT_vpn)>>, <<"body", StrV(TXT_vpn)>>,
     <<"priority", StrV(TXT_urgent)>>}

\* arguments that create_ticket refuses: blank title, blank body, unknown priority
InvalidTicketArgs ==
    { {<<"title", StrV(TXT_blank)>>, <<"body", StrV(TXT_vpn)>>,
       <<"priority", StrV(TXT_high)>>},
      {<<"title", StrV(TXT_vpn)>>, <<"body", StrV(<<>>)>>,
       <<"priority", StrV(TXT_high)>>},
      BadTicketArgs }

\* arguments that schedule_followup refuses: a datetime that does not parse, a
\* blank contact, an unknown channel
InvalidFollowupArgs ==
    { {<<"datetime_iso", StrV(TXT_vpn)>>, <<"contact", StrV(TXT_hi)>>,
       <<"channel", StrV(TXT_email)>>},
      {<<"datetime_iso", StrV(TXT_date)>>, <<"contact", StrV(TXT_blank)>>,
       <<"channel", StrV(TXT_email)>>},
      {<<"datetime_iso", StrV(TXT_date)>>, <<"contact", StrV(TXT_hi)>>,
       <<"channel", StrV(TXT_vpn)>>} }

RecorderArgs(kind) ==
    IF kind = "ticket" THEN {TicketArgs} \cup InvalidTicketArgs
    ELSE {FollowupArgs} \cup InvalidFollowupArgs

CounterField(kind) == IF kind = "ticket" THEN "ticket_counter" ELSE "followup_counter"
LogField(kind) == IF kind = "ticket" THEN "tickets" ELSE "followups"
MakeId(kind, counter) ==
    IF kind = "ticket" THEN TicketId(counter) ELSE FollowupId(counter)

\* what the call does when it runs alone, from a fresh recorder
Alone(kind, args) ==
    IF kind = "ticket" THEN create_ticket(args, InitRecorder)
    ELSE schedule_followup(args, InitRecorder)

\* the dict written to the log, with the id the call was given
LogLine(kind, id, args) ==
    [Alone(kind, args).recorder[LogField(kind)][1] EXCEPT !.id = id]

InitRecorders ==
    /\ IdleRun
    /\ counter0 \in 0 .. MaxCounter
    /\ recorder = [InitRecorder EXCEPT !.ticket_counter = counter0,
                                       !.followup_counter = counter0]
    /\ locks = NoLocks
    /\ callers = NoCallers
    /\ kb_file = InitKbFile
    /\ kb_cache = NoKbCache
    /\ readers = NoReaders
    /\ search = NoSearch

\* (a variant in which the lock never makes a thread wait)
LockAlwaysFree(kind) == TRUE

\* `with _LOCK:` can be entered
LockFree(kind) == locks[kind] = NoThread

RecorderFrame == UNCHANGED <<run_vars, counter0, kb_file, kb_cache, readers, search>>

\* (a variant that takes the next id before it looks at the arguments)
CallRecorderUnvalidated(t) ==
    /\ callers[t].pc = "idle"
    /\ \E kind \in RecorderKinds : \E args \in RecorderArgs(kind) :
         callers' = [callers EXCEPT ![t] =
                        [pc |-> "next_id",
                         kind |-> kind, args |-> args, counter |-> 0, id |-> NoId]]
    /\ UNCHANGED <<recorder, locks>>
    /\ RecorderFrame

\* The call starts: the arguments are validated, nothing is touched yet.
CallRecorder(t) ==
    /\ callers[t].pc = "idle"
    /\ \E kind \in RecorderKinds : \E args \in RecorderArgs(kind) :
         callers' = [callers EXCEPT ![t] =
                        [pc |-> IF Alone(kind, args).ok THEN "next_id" ELSE "raised",
                         kind |-> kind, args |-> args, counter |-> 0, id |-> NoId]]
    /\ UNCHANGED <<recorder, locks>>
    /\ RecorderFrame

\* _get_next_*_id: `with _LOCK:`
AcquireForId(t) ==
    /\ callers[t].pc = "next_id"
    /\ LockFree(callers[t].kind)
    /\ locks' = [locks EXCEPT ![callers[t].kind] = t]
    /\ callers' = [callers EXCEPT ![t].pc = "load"]
    /\ UNCHANGED recorder
    /\ RecorderFrame

\* counter = _load_counter() + 1
LoadCounter(t) ==
    /\ callers[t].pc = "load"
    /\ callers' = [callers EXCEPT ![t].pc = "save",
                                  ![t].counter = recorder[CounterField(callers[t].kind)] + 1]
    /\ UNCHANGED <<recorder, locks>>
    /\ RecorderFrame

\* _save_counter(counter); return the id, which leaves the `with` block
SaveCounter(t) ==
    /\ callers[t].pc = "save"
    /\ recorder' = [recorder EXCEPT ![CounterField(callers[t].kind)] = callers[t].counter]
    /\ locks' = [locks EXCEPT ![callers[t].kind] = NoThread]
    /\ callers' = [callers EXCEPT ![t].pc = "line",
                                  ![t].id = MakeId(callers[t].kind, callers[t].counter)]
    /\ RecorderFrame

\* the second `with _LOCK:`, around the append
AcquireForAppend(t) ==
    /\ callers[t].pc = "line"
    /\ LockFree(callers[t].kind)
    /\ locks' = [locks EXCEPT ![callers[t].kind] = t]
    /\ callers' = [callers EXCEPT ![t].pc = "append"]
    /\ UNCHANGED recorder
    /\ RecorderFrame

\* f.write(line), the lock is released and the call returns its id
AppendLine(t) ==
    /\ callers[t].pc = "append"
    /\ recorder' = [recorder EXCEPT ![LogField(callers[t].kind)] =
                        Append(@, LogLine(callers[t].kind, callers[t].id,
                                          callers[t].args))]
    /\ locks' = [locks EXCEPT ![callers[t].kind] = NoThread]
    /\ callers' = [callers EXCEPT ![t].pc = "returned"]
    /\ RecorderFrame

NextRecorders ==
    \/ \E t \in Threads : CallRecorder(t)
    \/ \E t \in Threads : AcquireForId(t)
    \/ \E t \in Threads : LoadCounter(t)
    \/ \E t \in Threads : SaveCounter(t)
    \/ \E t \in Threads : AcquireForAppend(t)
    \/ \E t \in Threads : AppendLine(t)

SpecRecorders == InitRecorders /\ [][NextRecorders]_vars

(***************************************************************************)
(* The knowledge-base cache: _load_kb called from several threads while    *)
(* the document is rewritten, and search_kb called by one caller.          *)
(***************************************************************************)
InitKb ==
    /\ IdleRun
    /\ recorder = InitRecorder
    /\ locks = NoLocks
    /\ counter0 = 0
    /\ callers = NoCallers
    /\ kb_file \in { [doc |-> d, mtime |-> 1] : d \in Docs }
    /\ kb_cache = NoKbCache
    /\ readers = NoReaders
    /\ search = NoSearch

KbFrame == UNCHANGED <<run_vars, recorder, locks, counter0, callers>>

\* The document is rewritten: other entries, a later modification time.
UpdateDocument ==
    /\ kb_file.mtime < MaxMtime
    /\ \E d \in Docs \ {kb_file.doc} :
         kb_file' = [doc |-> d, mtime |-> kb_file.mtime + 1]
    /\ UNCHANGED <<kb_cache, readers, search>>
    /\ KbFrame

\* The document's modification time changes, its entries do not.
TouchDocument ==
    /\ kb_file.mtime < MaxMtime
    /\ kb_file' = [kb_file EXCEPT !.mtime = @ + 1]
    /\ UNCHANGED <<kb_cache, readers, search>>
    /\ KbFrame

\* mtime = _DB_PATH.stat().st_mtime
StatDocument(t) ==
    /\ readers[t].pc \in {"idle", "returned"}
    /\ readers' = [readers EXCEPT ![t] =
                      [IdleReader EXCEPT !.pc = "check", !.mtime = {kb_file.mtime}]]
    /\ UNCHANGED <<kb_file, kb_cache, search>>
    /\ KbFrame

\* `_KB_CACHE is not None and _KB_MTIME == mtime`
CacheHit(cache, mtime) == cache._KB_CACHE # NoDoc /\ cache._KB_MTIME = mtime

\* if the cache is current: return _KB_CACHE
CheckCache(t) ==
    /\ readers[t].pc = "check"
    /\ readers' = [readers EXCEPT ![t] =
                      IF CacheHit(kb_cache, readers[t].mtime)
                      THEN [@ EXCEPT !.pc = "returned", !.hit = TRUE,
                                     !.entries = kb_cache._KB_CACHE]
                      ELSE [@ EXCEPT !.pc = "read"]]
    /\ UNCHANGED <<kb_file, kb_cache, search>>
    /\ KbFrame

\* data = json.loads(_DB_PATH.read_text()); kb_entries = [...]
ReadDocument(t) ==
    /\ readers[t].pc = "read"
    /\ readers' = [readers EXCEPT ![t].pc = "publish", ![t].data = kb_file.doc]
    /\ UNCHANGED <<kb_file, kb_cache, search>>
    /\ KbFrame

\* _KB_CACHE = kb_entries
PublishCache(t) ==
    /\ readers[t].pc = "publish"
    /\ kb_cache' = [kb_cache EXCEPT !._KB_CACHE = readers[t].data]
    /\ readers' = [readers EXCEPT ![t].pc = "publish_mtime"]
    /\ UNCHANGED <<kb_file, search>>
    /\ KbFrame

\* _KB_MTIME = mtime; return kb_entries
PublishMtime(t) ==
    /\ readers[t].pc = "publish_mtime"
    /\ kb_cache' = [kb_cache EXCEPT !._KB_MTIME = readers[t].mtime]
    /\ readers' = [readers EXCEPT ![t].pc = "returned", ![t].entries = readers[t].data,
                                  ![t].data = NoDoc]
    /\ UNCHANGED <<kb_file, search>>
    /\ KbFrame

NextKbCache ==
    \/ UpdateDocument
    \/ \E t \in Threads : StatDocument(t)
    \/ \E t \in Threads : CheckCache(t)
    \/ \E t \in Threads : ReadDocument(t)
    \/ \E t \in Threads : PublishCache(t)
    \/ \E t \in Threads : PublishMtime(t)

SpecKbCache == InitKb /\ [][NextKbCache]_vars

\* (a variant that trusts whatever is cached)
LoadKbNeverReparses(file, cache) ==
    IF cache._KB_CACHE # NoDoc
    THEN [entries |-> cache._KB_CACHE, cache |-> cache, parsed |-> FALSE]
    ELSE [entries |-> file.doc,
          cache |-> [_KB_CACHE |-> file.doc, _KB_MTIME |-> {file.mtime}],
          parsed |-> TRUE]

\* a variant that stores the re-read document and hands back the entries it
\* held before
LoadKbReturnsStale(file, cache) ==
    IF CacheHit(cache, {file.mtime})
    THEN [entries |-> cache._KB_CACHE, cache |-> cache, parsed |-> FALSE]
    ELSE [entries |-> IF cache._KB_CACHE # NoDoc THEN cache._KB_CACHE ELSE file.doc,
          cache |-> [_KB_CACHE |-> file.doc, _KB_MTIME |-> {file.mtime}],
          parsed |-> TRUE]

\* _load_kb() run from beginning to end by a single caller
_load_kb(file, cache) ==
    IF CacheHit(cache, {file.mtime})
    THEN [entries |-> cache._KB_CACHE, cache |-> cache, parsed |-> FALSE]
    ELSE [entries |-> file.doc,
          cache |-> [_KB_CACHE |-> file.doc, _KB_MTIME |-> {file.mtime}],
          parsed |-> TRUE]

\* search_kb_on for every document and every call of the model, worked out once
RankTable ==
    [d \in Docs |->
        [c \in Queries \X FilterValues |->
            Ranked(KBDocs[d], c[1].s, c[2])] @@ <<>>] @@ <<>>

SearchTable ==
    [d \in Docs |->
        [c \in Queries \X TopKs \X FilterValues |->
            search_kb_with(RankTable[d][<<c[1], c[3]>>], c[1], c[2], c[3])] @@ <<>>] @@ <<>>

\* what a caller keeps of an earlier call
NoFirst == [repeated |-> FALSE]
FirstOf(s) == [repeated |-> TRUE, ok |-> s.ok, exc |-> s.exc,
               results |-> s.results, file |-> s.file]

\* search_kb(query, top_k, filters) runs against the document and the cache as
\* they are; first is what the caller keeps of its earlier call, if any.
SearchStep(query, top_k, filters, first) ==
    LET loaded == _load_kb(kb_file, kb_cache)
        out == SearchTable[loaded.entries][<<query, top_k, filters>>]
    IN /\ search' = [called |-> TRUE, query |-> query, top_k |-> top_k,
                     filters |-> filters, ok |-> out.ok, exc |-> out.exc,
                     results |-> out.results,
                     loaded |-> NonBlankStr(query),
                     parsed |-> NonBlankStr(query) /\ loaded.parsed,
                     kb |-> loaded.entries,
                     file |-> kb_file, cache_before |-> kb_cache,
                     first |-> first]
       /\ kb_cache' = IF NonBlankStr(query) THEN loaded.cache ELSE kb_cache

\* search_kb(query, top_k, filters) is called and returns or raises.
SearchCall ==
    /\ ~search.called
    /\ \E query \in Queries, top_k \in TopKs, filters \in FilterValues :
         SearchStep(query, top_k, filters, NoFirst)
    /\ UNCHANGED <<kb_file, readers>>
    /\ KbFrame

\* The caller makes the call it has just made once more, same arguments.
SearchAgain ==
    /\ search.called
    /\ ~search.first.repeated
    /\ SearchStep(search.query, search.top_k, search.filters, FirstOf(search))
    /\ UNCHANGED <<kb_file, readers>>
    /\ KbFrame

\* The caller is done with the result.
SearchDone ==
    /\ search.called
    /\ search' = NoSearch
    /\ UNCHANGED <<kb_file, kb_cache, readers>>
    /\ KbFrame

NextSearch ==
    \/ UpdateDocument
    \/ TouchDocument
    \/ SearchCall
    \/ SearchAgain
    \/ SearchDone

SpecSearch == InitKb /\ [][NextSearch]_vars

(***************************************************************************)
(* Properties of run_task.                                                 *)
(***************************************************************************)
Cap == settings.MAX_TOOLS_ITERATIONS

CapMessage == MSG_cap_prefix \o IntToStr(Cap) \o <<")">>

\* the run ended by returning a RunResult
Done == pc = "returned"

\* the output carries no function_call item
NoToolRequests(output) == \A i \in DOMAIN output : output[i].type # "function_call"

\* the text is empty or consists of whitespace only
AllSpaces(chars) == \A i \in DOMAIN chars : IsSpace(chars[i])

\* the transcript holds an output turn for the call
HasOutputTurn(call_id) ==
    \E i \in DOMAIN messages :
        messages[i].type = "function_call_output" /\ messages[i].call_id = call_id

\* C1 as stated: a run of N tool-requesting responses and a terminal one returns
\* openai_calls = N + 1 and exactly N tool_calls entries.
C1_OneRecordPerToolTurn ==
    Done => /\ returned.metrics.openai_calls = tool_iterations + 1
            /\ Len(returned.tool_calls) = tool_iterations

\* C1, amended: a run of N tool-requesting responses (N within the cap) and a
\* terminal one returns openai_calls = N + 1, after exactly N + 1 engine calls,
\* and tool_calls holds one entry per tool invocation request of those
\* responses, in request order, with the request's name and parsed arguments.
C1_RecordsFollowRequests ==
    Done => /\ tool_iterations <= Cap
            /\ returned.metrics.openai_calls = tool_iterations + 1
            /\ Len(engine_calls) = tool_iterations + 1
            /\ Len(returned.tool_calls) = Len(requested)
            /\ \A i \in DOMAIN requested :
                /\ returned.tool_calls[i].name = requested[i].name
                /\ returned.tool_calls[i].arguments = ParseArgs(requested[i].arguments)

C1_Witness ==
    /\ Done
    /\ tool_iterations = 2
    /\ Len(returned.tool_calls) = 3
    /\ returned.tool_calls[1].name # returned.tool_calls[2].name

\* C2: when the first engine response carries no tool invocation request, the run
\* returns with openai_calls = 1 and no tool_calls; no tool was executed and no
\* second engine call was issued.
C2_TerminalFirstResponse ==
    (last_response.call = 1 /\ NoToolRequests(last_response.output))
        => /\ Done
           /\ returned.metrics.openai_calls = 1
           /\ returned.tool_calls = <<>>
           /\ executed = <<>>
           /\ Len(engine_calls) = 1

C2_Witness ==
    /\ Done
    /\ last_response.call = 1
    /\ last_response.output # <<>>
    /\ NoToolRequests(last_response.output)
    /\ returned.final_answer = TXT_hi

\* C3: a run issues at most cap + 1 engine calls; the tool-requesting response that
\* takes the iteration counter above the cap ends the run with the iteration-cap
\* failure.
C3_AtMostCapPlusOneCalls ==
    /\ Len(engine_calls) <= Cap + 1
    /\ openai_calls <= Cap + 1
    /\ tool_iterations > Cap
        => /\ pc = "raised"
           /\ origin = "cap"
           /\ raised.msg = CapMessage
           /\ returned = NoRunResult

C3_Witness ==
    /\ pc = "raised"
    /\ origin = "cap"
    /\ Cap = MaxCap
    /\ Len(engine_calls) = Cap + 1

\* C4 as stated: exceeding the cap raises a dedicated iteration-limit error that
\* carries the trace id and the cap, and the handler answers with both.
C4_DedicatedIterationLimitError ==
    origin = "cap"
        => /\ raised.type = "ToolIterationLimitError"
           /\ raised.trace_id = trace_id
           /\ raised.max_iterations = {Cap}
           /\ http.error = "tool_iteration_limit"
           /\ http.trace_id = trace_id
           /\ http.max_iterations = {Cap}

\* C5: every engine call is preceded by the deadline check: no call is issued at a
\* time after the deadline, and a check that finds the deadline passed raises
\* TimeoutError instead of issuing the call it counted.
C5_NoCallAfterDeadline ==
    /\ \A i \in DOMAIN engine_calls : engine_calls[i] <= deadline
    /\ pc = "engine" => Len(engine_calls) = openai_calls
    /\ origin = "deadline"
        => /\ pc = "raised"
           /\ raised.type = "TimeoutError"
           /\ now > deadline
           /\ Len(engine_calls) = openai_calls - 1

C5_Witness ==
    /\ origin = "deadline"
    /\ raised.type = "TimeoutError"
    /\ Len(engine_calls) >= 1

\* C6 as stated: no RunResult is returned for a terminal response obtained after
\* the deadline had passed.
C6_NoResultAfterDeadline ==
    Done => last_response.at <= deadline

\* C6, amended: run_task fails with TimeoutError exactly when a deadline check
\* before an engine call finds the deadline passed; the terminal response to a
\* call issued by the deadline is returned as a RunResult whenever it arrives.
C6_TimeoutOnlyAtDispatch ==
    /\ raised.type = "TimeoutError" <=> origin = "deadline"
    /\ Done => /\ engine_calls[Len(engine_calls)] <= deadline
               /\ last_response.call = Len(engine_calls)
               /\ returned.metrics.latency_ms = (last_response.at - t0) * 1000

C6_Witness ==
    /\ Done
    /\ last_response.at > deadline

\* C7 as stated: whenever the engine call fails, run_task raises
\* UpstreamModelError carrying the task's trace id.
C7_EngineFailureIsUpstream ==
    origin = "engine"
        => /\ raised.type = "UpstreamModelError"
           /\ raised.trace_id = trace_id

\* C8: a blank task fails with the validation error, and a non-blank task without
\* an API key with the configuration error; in both cases no engine call is
\* issued and no tool is executed.
C8_RejectedBeforeAnyCall ==
    /\ (pc # "idle" /\ (input.task.type # "str" \/ AllSpaces(input.task.s)))
        => /\ pc = "raised"
           /\ origin = "validation"
           /\ raised = Exc("ValueError", MSG_task_empty)
           /\ engine_calls = <<>> /\ openai_calls = 0 /\ executed = <<>>
    /\ (pc # "idle" /\ input.task.type = "str" /\ ~AllSpaces(input.task.s)
            /\ settings.OPENAI_API_KEY = "")
        => /\ pc = "raised"
           /\ origin = "configuration"
           /\ raised = Exc("ValueError", MSG_no_api_key)
           /\ engine_calls = <<>> /\ openai_calls = 0 /\ executed = <<>>

C8_Witness ==
    /\ pc = "raised"
    /\ origin = "validation"
    /\ input.task = StrV(TXT_blank)
    /\ settings.OPENAI_API_KEY # ""

\* C9 as stated: a call whose arguments fail to parse is executed with the empty
\* argument set and recorded with arguments = {}.
C9_SubstitutedCallIsRecorded ==
    \A i \in DOMAIN executed :
        executed[i].substituted
            => /\ executed[i].arguments = EmptyDict
               /\ \E j \in DOMAIN tool_call_records :
                    /\ tool_call_records[j].name = executed[i].name
                    /\ tool_call_records[j].arguments = EmptyDict
               /\ HasOutputTurn(executed[i].call_id)

\* C10 as stated: a tool's rejection of its arguments is that invocation's result:
\* it is recorded and fed back, and does not fail the task.
C10_ToolRejectionIsAResult ==
    \A i \in DOMAIN executed :
        (~executed[i].ok /\ executed[i].exc.type = "ValueError"
            /\ executed[i].name \in {"search_kb", "create_ticket", "schedule_followup"})
            => /\ origin # "tool"
               /\ HasOutputTurn(executed[i].call_id)

\* C11: at every engine call the transcript passed extends the transcript of the
\* previous call, and for every tool invocation executed before that call it holds
\* the request turn followed at once by the one output turn with the same call_id,
\* which carries that tool's result.
IsPrefix(s, t) == Len(s) <= Len(t) /\ SubSeq(t, 1, Len(s)) = s

TurnsOf(transcript, type, call_id) ==
    { j \in DOMAIN transcript :
        transcript[j].type = type /\ transcript[j].call_id = call_id }

C11_TranscriptAppendOnlyAndPaired ==
    /\ \A k \in 1 .. Len(sent) - 1 : IsPrefix(sent[k], sent[k + 1])
    /\ \A k \in DOMAIN sent : \A i \in DOMAIN executed :
          executed[i].turn < k =>
              LET reqs == TurnsOf(sent[k], "function_call", executed[i].call_id)
                  outs == TurnsOf(sent[k], "function_call_output", executed[i].call_id)
              IN /\ executed[i].ok
                 /\ Cardinality(reqs) = 1
                 /\ Cardinality(outs) = 1
                 /\ \A j \in reqs :
                       /\ j + 1 \in outs
                       /\ sent[k][j].name = executed[i].name
                       /\ sent[k][j + 1].output = JsonDumps(executed[i].result)

\* the engine is called a third time, after two calls of one response and one of
\* the next were executed
C11_Witness ==
    /\ Len(sent) = 3
    /\ Len(executed) = 3
    /\ executed[1].turn = 1 /\ executed[2].turn = 1 /\ executed[3].turn = 2
    /\ executed[1].result # executed[2].result

\* C12: every result run_task returns has a final_answer that is not empty, and
\* when the terminal response holds no message text other than blanks the
\* final_answer is the fixed fallback sentence.
NoNonBlankText(output) ==
    \A i \in DOMAIN output :
        output[i].type = "message" => AllSpaces(output[i].text)

C12_FinalAnswerNeverEmpty ==
    pc = "returned" =>
        /\ returned.final_answer # <<>>
        /\ ~AllSpaces(returned.final_answer)
        /\ NoNonBlankText(last_response.output) =>
               returned.final_answer = MSG_fallback

\* a run whose terminal response is a message of blanks only
C12_Witness ==
    /\ pc = "returned"
    /\ last_response.output # <<>>
    /\ NoNonBlankText(last_response.output)
    /\ returned.final_answer = MSG_fallback

\* C13: the calls of one recorder that have returned, made at once from counter
\* file value c, returned pairwise distinct ids, and once none is in progress the
\* k ids are exactly those numbered c+1 .. c+k; the same for both recorders.
ReturnedFrom(kind) ==
    { t \in Threads : callers[t].kind = kind /\ callers[t].pc = "returned" }

InProgress(kind) ==
    { t \in Threads : callers[t].kind = kind
                      /\ callers[t].pc \notin {"idle", "raised", "returned"} }

C13_DistinctConsecutiveIds ==
    \A kind \in RecorderKinds :
        LET done == ReturnedFrom(kind) IN
        /\ \A t, u \in done : t # u => callers[t].id # callers[u].id
        /\ InProgress(kind) = {} =>
               { callers[t].id : t \in done } =
                   { MakeId(kind, counter0 + i) : i \in 1 .. Cardinality(done) }

\* every thread has made a valid call of the same recorder, and all have returned
C13_Witness ==
    \E kind \in RecorderKinds :
        /\ counter0 = MaxCounter
        /\ ReturnedFrom(kind) = Threads

\* C14: the log of each recorder is in ascending id order.
IdNumber(kind, id) ==
    CHOOSE n \in 0 .. MaxCounter + NumThreads : MakeId(kind, n) = id

C14_LogInAscendingIdOrder ==
    \A kind \in RecorderKinds :
        LET log == recorder[LogField(kind)] IN
        \A i, j \in DOMAIN log :
            i < j => IdNumber(kind, log[i].id) < IdNumber(kind, log[j].id)

\* C15: a _load_kb call that returns from the cache, the cached modification
\* time being the document's current one, returns the entries of the document's
\* current version.
C15_CacheHitReturnsCurrentVersion ==
    \A t \in Threads :
        ( /\ readers[t].pc = "returned"
          /\ readers[t].hit
          /\ readers[t].mtime = {kb_file.mtime} )
            => readers[t].entries = kb_file.doc

\* C16: a search by a single caller re-parses the document exactly when nothing
\* is cached or the cached modification time differs from the document's; a
\* search that re-parses is computed from the document's current entries and
\* caches them; one that does not is computed from the cached entries and
\* leaves the cache as it was.
C16_ReparseIffTimestampDiffers ==
    (search.called /\ search.loaded) =>
        /\ search.parsed <=>
               ( \/ search.cache_before._KB_CACHE = NoDoc
                 \/ search.cache_before._KB_MTIME # {search.file.mtime} )
        /\ search.parsed =>
               /\ search.kb = search.file.doc
               /\ kb_cache = [_KB_CACHE |-> search.file.doc,
                              _KB_MTIME |-> {search.file.mtime}]
        /\ ~search.parsed =>
               /\ search.kb = search.cache_before._KB_CACHE
               /\ kb_cache = search.cache_before
        /\ LET direct == SearchTable[search.kb]
                                    [<<search.query, search.top_k, search.filters>>]
           IN search.ok = direct.ok /\ search.results = direct.results

\* a search after the document was rewritten: the cache held the old entries,
\* the search gives what the new ones give, which is something else
C16_Witness ==
    /\ search.called /\ search.ok /\ search.parsed
    /\ search.cache_before._KB_CACHE # NoDoc
    /\ search.cache_before._KB_CACHE # search.file.doc
    /\ search.results # SearchTable[search.cache_before._KB_CACHE]
                                   [<<search.query, search.top_k, search.filters>>].results

\* C17: search_kb called with "", with whitespace only, with None or with what
\* is no string raises the validation error and gives no result set.
C17_BlankQueryRejected ==
    ( /\ search.called
      /\ (search.query.type # "str" \/ AllSpaces(search.query.s)) )
        => /\ ~search.ok
           /\ search.exc = Exc("ValueError", MSG_query_empty)
           /\ search.results = <<>>
           /\ kb_cache = search.cache_before

\* a query of a tab and a space was rejected
C17_Witness ==
    /\ search.called
    /\ search.query = StrV(Q_tab)
    /\ ~search.ok

\* the base score of every entry of every document for every query text of the
\* model, worked out once
BaseScores ==
    [d \in Docs |->
        [q \in {query.s : query \in {x \in Queries : x.type = "str"}} |->
            [i \in DOMAIN KBDocs[d] |->
                _score_entry(KBDocs[d][i], _tokenize(q))] @@ <<>>] @@ <<>>] @@ <<>>

\* the number of entries of the searched document with a non-zero base score
Matching ==
    Cardinality({ i \in DOMAIN KBDocs[search.kb] :
                    BaseScores[search.kb][search.query.s][i] # 0 })

\* C18: the number of results is at most max(1, min(top_k, 10)), top_k being the
\* configured default of 5 when the caller gives none, and it is that bound or
\* the number of entries with a non-zero base score, whichever is less.
C18_ResultCountClamped ==
    (search.called /\ search.ok) =>
        LET k == IF search.top_k.type = "none" THEN 5 ELSE search.top_k.n
            bound == IF k < 1 THEN 1 ELSE IF k > 10 THEN 10 ELSE k
        IN /\ Len(search.results) <= bound
           /\ Len(search.results) = (IF Matching < bound THEN Matching ELSE bound)

\* eleven results were asked for where more than ten entries match: ten came
C18_Witness ==
    /\ search.called /\ search.ok
    /\ search.top_k = IntV(11)
    /\ Matching > 10
    /\ Len(search.results) = 10

\* the base score of the entry a result stands for
BaseOfResult(result) ==
    BaseScores[search.kb][search.query.s]
              [CHOOSE i \in DOMAIN KBDocs[search.kb] : KBDocs[search.kb][i].id = result.id]

\* C19: in a result set no entry has base score 0, every score is above 0 and at
\* most 1.0, the first score is 1.0, and the scores do not increase.
C19_ScoresNormalizedAndOrdered ==
    (search.called /\ search.ok) =>
        /\ \A i \in DOMAIN search.results :
              /\ BaseOfResult(search.results[i]) # 0
              /\ search.results[i].score > 0
              /\ search.results[i].score <= ScoreUnit
        /\ search.results # <<>> => search.results[1].score = ScoreUnit
        /\ \A i, j \in DOMAIN search.results :
              i < j => search.results[i].score >= search.results[j].score

\* a result set of several scores, from a document with an entry that does not
\* match
C19_Witness ==
    /\ search.called /\ search.ok
    /\ Len(search.results) >= 3
    /\ search.results[3].score < search.results[2].score
    /\ search.results[2].score < search.results[1].score
    /\ Matching < Len(KBDocs[search.kb])

\* C20: with three entries, no filters, top_k = 2 and a query without
\* troubleshooting or escalation words, if entry A's base score is twice entry
\* B's and the third entry does not match, the results are A with score 1.0 and
\* B with score 0.5, whatever the audiences.
C20_TwiceTheBaseScoreHalvesTheScore ==
    ( /\ search.called /\ search.ok
      /\ Len(KBDocs[search.kb]) = 3
      /\ search.top_k = IntV(2)
      /\ search.filters = NoFilters
      /\ ~_is_troubleshooting_query(_tokenize(search.query.s))
      /\ ~_is_escalation_query(_tokenize(search.query.s)) )
        => \A a, b, c \in DOMAIN KBDocs[search.kb] :
              LET base == BaseScores[search.kb][search.query.s] IN
              ( /\ c \notin {a, b}
                /\ base[b] > 0
                /\ base[a] = 2 * base[b]
                /\ base[c] = 0 )
                  => /\ Len(search.results) = 2
                     /\ search.results[1].id = KBDocs[search.kb][a].id
                     /\ search.results[1].score = ScoreUnit
                     /\ search.results[2].id = KBDocs[search.kb][b].id
                     /\ 2 * search.results[2].score = ScoreUnit

\* the queries of the model that use a vendor's name, each with the query that
\* has the generic word `crm` in its place
VendorQueries ==
    { <<StrV(Q_salesforce), StrV(Q_crm)>>,
      <<StrV(Q_hubspot_crm), StrV(Q_crm_crm)>> }

IdsAndScores(results) ==
    [i \in DOMAIN results |-> <<results[i].id, results[i].score>>]

\* C21: a query that names a vendor of the synonym table gives the same entry
\* ids in the same order with the same scores as the query with `crm` in the
\* vendor's place, on every document and with every top_k and filters.
C21_VendorTermRanksAsGenericTerm ==
    \A pair \in VendorQueries :
        (search.called /\ search.query = pair[1]) =>
            LET generic == SearchTable[search.kb][<<pair[2], search.top_k,
                                                    search.filters>>]
            IN /\ search.ok = generic.ok
               /\ IdsAndScores(search.results) = IdsAndScores(generic.results)

\* a search for the vendor's name found several entries, which hold `crm`
C21_Witness ==
    /\ search.called /\ search.ok
    /\ search.query = StrV(Q_salesforce)
    /\ Len(search.results) >= 2
    /\ search.results[2].score < search.results[1].score

\* the ids of the results
ResultIds(results) == { results[i].id : i \in DOMAIN results }

\* C22: whatever the filters (an audience, tags, or both), when top_k is at
\* least the number of entries with a non-zero base score every such entry is in
\* the results, the ones that do not match the filters included.
C22_FiltersNeverExclude ==
    ( /\ search.called
      /\ NonBlankStr(search.query)
      /\ ~FiltersFalsy(search.filters)
      /\ search.top_k.type = "int"
      /\ search.top_k.n >= Matching
      /\ search.top_k.n <= TopKCap )
        => /\ search.ok
           /\ \A i \in DOMAIN KBDocs[search.kb] :
                BaseScores[search.kb][search.query.s][i] # 0
                    => KBDocs[search.kb][i].id \in ResultIds(search.results)

\* C23: a call repeated with the same arguments against a document whose
\* entries are those of the first call returns what the first call returned,
\* ids, scores and snippets in the same order, also when the document's
\* modification time has changed in between and the entries are read anew.
C23_RepeatedCallSameResults ==
    ( /\ search.called
      /\ search.first.repeated
      /\ search.file.doc = search.first.file.doc )
        => /\ search.ok = search.first.ok
           /\ search.exc = search.first.exc
           /\ search.results = search.first.results

C23_Witness ==
    /\ search.called
    /\ search.first.repeated
    /\ search.file.doc = search.first.file.doc
    /\ search.file.mtime # search.first.file.mtime
    /\ search.parsed
    /\ search.ok
    /\ Len(search.results) >= 2

\* the audience the filters ask for, as the code normalizes it
RequestedAudience(filters) == Strip(Lower(Get(filters.d, "audience").s))

\* the tags that the filters and the entry have in common
CommonTags(entry, filters) ==
    LET requested_tags == Get(filters.d, "tags")
    IN IF requested_tags.type = "list"
       THEN { Lower(requested_tags.s[i]) : i \in DOMAIN requested_tags.s }
                \cap { Lower(entry.tags[i]) : i \in DOMAIN entry.tags }
       ELSE {}

\* C24: when the filters name an audience, every entry with a non-zero base
\* score whose audience is the requested one gets a larger bonus than it gets
\* without filters, and on top of that one more point for each tag that the
\* filters and the entry share.
C24_AudienceFilterAddsBonus ==
    ( /\ search.called
      /\ NonBlankStr(search.query)
      /\ ~FiltersFalsy(search.filters)
      /\ Get(search.filters.d, "audience").type = "str"
      /\ RequestedAudience(search.filters) # <<>> )
        => \A i \in DOMAIN KBDocs[search.kb] :
             LET entry == KBDocs[search.kb][i]
                 query_tokens == _tokenize(search.query.s)
             IN ( /\ BaseScores[search.kb][search.query.s][i] # 0
                  /\ Lower(entry.audience) = RequestedAudience(search.filters) )
                    => _soft_preference_bonus(entry, query_tokens, search.filters)
                         > _soft_preference_bonus(entry, query_tokens, NoFilters)
                             + Cardinality(CommonTags(entry, search.filters))

\* the title and content tokens of every entry of every document, worked out once
EntryTokens ==
    [d \in Docs |->
        [i \in DOMAIN KBDocs[d] |->
            [title |-> _tokenize(Lower(KBDocs[d][i].title)),
             content |-> _tokenize(Lower(KBDocs[d][i].content))]] @@ <<>>] @@ <<>>

RECURSIVE SumOver(_, _)
SumOver(S, f) ==
    IF S = {} THEN 0
    ELSE LET x == CHOOSE y \in S : TRUE IN f[x] + SumOver(S \ {x}, f)

\* the tokens of every query text of the model, worked out once
QueryTokens ==
    [q \in {query.s : query \in {x \in Queries : x.type = "str"}} |->
        _tokenize(q)] @@ <<>>

\* the base score as the weighted sum over the query's distinct tokens, each
\* taken as often as the query has it: 5 for an occurrence among the title's
\* tokens, 3 for a tag equal to the token, 1 for an occurrence among the
\* content's tokens
WeightedSum(d, i, query_tokens) ==
    LET distinct == { query_tokens[k] : k \in DOMAIN query_tokens }
    IN SumOver(distinct,
               [tok \in distinct |->
                   Count(query_tokens, tok)
                     * ( 5 * Count(EntryTokens[d][i].title, tok)
                         + 3 * Cardinality({ k \in DOMAIN KBDocs[d][i].tags :
                                               Lower(KBDocs[d][i].tags[k]) = tok })
                         + Count(EntryTokens[d][i].content, tok) )])

\* the weighted sums for every document, query and entry, worked out once
WeightedSums ==
    [d \in Docs |->
        [q \in DOMAIN QueryTokens |->
            [i \in DOMAIN KBDocs[d] |->
                WeightedSum(d, i, QueryTokens[q])] @@ <<>>] @@ <<>>] @@ <<>>

\* the entry of the searched document that a result stands for
EntryOf(result) ==
    CHOOSE i \in DOMAIN KBDocs[search.kb] : KBDocs[search.kb][i].id = result.id

\* C25: the base score of an entry is the sum, over the query's tokens with
\* their multiplicity (lowercased, synonyms folded, stop words removed), of 5 per
\* occurrence among the title's tokens, 3 per tag equal to the token and 1 per
\* occurrence among the content's tokens: the results are entries for which
\* that sum is not 0, and their scores are that sum plus the bonus, divided by
\* the largest such total.
C25_BaseScoreIsWeightedSum ==
    (search.called /\ search.ok) =>
        LET sums == WeightedSums[search.kb][search.query.s]
            query_tokens == QueryTokens[search.query.s]
            candidates == { i \in DOMAIN sums : sums[i] # 0 }
            totals == [i \in candidates |->
                         sums[i] + _soft_preference_bonus(KBDocs[search.kb][i],
                                                          query_tokens,
                                                          search.filters)] @@ <<>>
            top == CHOOSE m \in { totals[j] : j \in candidates } :
                       \A j \in candidates : totals[j] <= m
        IN /\ sums = BaseScores[search.kb][search.query.s]
           /\ \A k \in DOMAIN search.results :
                LET i == EntryOf(search.results[k])
                IN /\ i \in candidates
                   /\ search.results[k].score = Round6(totals[i], top)

\* a query that has a token twice, matched in titles, tags and contents
C25_Witness ==
    /\ search.called /\ search.ok
    /\ search.query = StrV(Q_hubspot_crm)
    /\ Count(QueryTokens[search.query.s], <<"c","r","m">>) = 2
    /\ Len(search.results) >= 2
    /\ \E k \in DOMAIN search.results :
          LET i == EntryOf(search.results[k])
          IN /\ Count(EntryTokens[search.kb][i].title, <<"c","r","m">>) > 0
             /\ Count(EntryTokens[search.kb][i].content, <<"c","r","m">>) > 0
             /\ Count(LowerAll(KBDocs[search.kb][i].tags), <<"c","r","m">>) > 0

\* run_task is between its start and its end
Running == pc \in {"loop", "engine", "tools"}

\* run_task has ended: it returned a RunResult or raised
Terminated == pc \in {"returned", "raised"}

\* C26: when every engine call and every tool execution comes back, a run of
\* run_task that has started ends, by returning a RunResult or by raising,
\* whatever the engine answers, tool requests on every turn included.
C26_RunTaskTerminates == Running ~> Terminated

\* the engine asked for tools on every turn, one turn more than the largest cap
\* allows, and the run ended
C26_Witness ==
    /\ Terminated
    /\ origin = "cap"
    /\ Cap = MaxCap
    /\ tool_iterations = MaxCap + 1
    /\ openai_calls = MaxCalls

\* the number of executed calls of a tool that returned
ExecutedOk(name) ==
    Cardinality({ i \in DOMAIN executed : executed[i].ok /\ executed[i].name = name })

\* the tool-requesting turns of which a call was executed
ExecutedTurns == { executed[i].turn : i \in DOMAIN executed }

\* C27: on the tool-requesting turn that takes the counter above the cap no
\* requested tool is executed: no ticket or follow-up is recorded, no invocation
\* record is added and the transcript is the one sent with that turn's engine
\* call; so calls of at most cap tool-requesting turns are ever executed.
C27_CapTurnExecutesNothing ==
    /\ Cardinality(ExecutedTurns) <= Cap
    /\ origin = "cap" =>
         /\ \A i \in DOMAIN executed : executed[i].turn < openai_calls
         /\ messages = sent[Len(sent)]
         /\ Len(tool_call_records)
              = Cardinality({ i \in DOMAIN executed : executed[i].ok })
         /\ recorder.ticket_counter = ExecutedOk("create_ticket")
         /\ Len(recorder.tickets) = ExecutedOk("create_ticket")
         /\ recorder.followup_counter = ExecutedOk("schedule_followup")
         /\ Len(recorder.followups) = ExecutedOk("schedule_followup")

\* the cap was exceeded by a turn that asked for a ticket, after turns whose
\* tools were executed
C27_Witness ==
    /\ pc = "raised"
    /\ origin = "cap"
    /\ Cap >= 1
    /\ Cardinality(ExecutedTurns) = Cap
    /\ \E i \in DOMAIN last_response.output :
          /\ last_response.output[i].type = "function_call"
          /\ last_response.output[i].name = "create_ticket"
    /\ ExecutedOk("create_ticket") >= 1

\* the threads whose call was refused: the arguments failed validation
Refused(kind) ==
    { t \in Threads : /\ callers[t].pc # "idle"
                      /\ callers[t].kind = kind
                      /\ callers[t].args \in InvalidTicketArgs \cup InvalidFollowupArgs }

\* the threads that have written the counter back
Stored(kind) ==
    { t \in Threads : /\ callers[t].kind = kind
                      /\ callers[t].pc \in {"line", "append", "returned"} }

\* C28: a call of create_ticket or schedule_followup whose arguments fail
\* validation raises and takes no id, the recorder's counter counts only the
\* calls that passed validation and its log holds only their lines, so the ids of
\* the valid calls run on from the counter without a gap.
C28_FailedValidationChangesNothing ==
    \A kind \in RecorderKinds :
        /\ \A t \in Refused(kind) : callers[t].pc = "raised" /\ callers[t].id = NoId
        /\ Stored(kind) \cap Refused(kind) = {}
        /\ recorder[CounterField(kind)] = counter0 + Cardinality(Stored(kind))
        /\ Len(recorder[LogField(kind)]) = Cardinality(ReturnedFrom(kind))
        /\ InProgress(kind) = {} =>
              { recorder[LogField(kind)][i].id : i \in DOMAIN recorder[LogField(kind)] }
                  = { MakeId(kind, counter0 + i) :
                        i \in 1 .. Cardinality(ReturnedFrom(kind)) }

\* a refused call and a valid call of the same recorder: the valid one got the
\* first id after the counter
C28_Witness ==
    \E kind \in RecorderKinds : \E t, u \in Threads :
        /\ t \in Refused(kind)
        /\ callers[t].pc = "raised"
        /\ callers[u].kind = kind
        /\ callers[u].pc = "returned"
        /\ callers[u].id = MakeId(kind, counter0 + 1)
        /\ recorder[CounterField(kind)] = counter0 + 1

\* C29: run_task raises UpstreamModelError only for a failure of the engine
\* call: a failure of a tool execution, of the deadline check or of the cap check
\* is never raised as UpstreamModelError, whatever its message says.
C29_UpstreamErrorOnlyFromEngine ==
    (pc = "raised" /\ raised.type = "UpstreamModelError") => origin = "engine"

\* C30: a search with non-empty filters that give only tags or only an audience
\* does not fail, and when entries match the query it returns results.
C30_EitherFilterAlone ==
    ( /\ search.called
      /\ NonBlankStr(search.query)
      /\ ~FiltersFalsy(search.filters)
      /\ Cardinality(Keys(search.filters.d)) = 1 )
        => /\ search.ok
           /\ Matching > 0 => search.results # <<>>

\* _tool_definitions(): for each advertised tool the required properties and the
\* other properties of its parameters (additionalProperties is false)
_tool_definitions ==
    { [name |-> "search_kb", required |-> {"query"}, optional |-> {"top_k"}],
      [name |-> "create_ticket",
       required |-> {"customer_id", "title", "description"},
       optional |-> {"severity"}],
      [name |-> "schedule_followup",
       required |-> {"customer_id", "when"}, optional |-> {"notes"}] }

\* the request names an advertised tool and its argument keys are what that
\* tool's parameters allow
ConformsToCatalog(name, args) ==
    \E tool \in _tool_definitions :
        /\ tool.name = name
        /\ tool.required \subseteq Keys(args)
        /\ Keys(args) \subseteq tool.required \cup tool.optional

\* C31: a tool request whose name and argument keys conform to the advertised
\* catalog is bound to the tool's implementation: the call is not refused with
\* a TypeError for its argument names, which would end the run.
C31_CatalogRequestIsAccepted ==
    \A i \in DOMAIN executed :
        ( /\ ~executed[i].substituted
          /\ ConformsToCatalog(executed[i].name, executed[i].arguments) )
            => executed[i].exc.type # "TypeError"

====
